---- MODULE Spec2Model ----
(***************************************************************************)
(* A model of the YouTube transcriber: the timestamp codec and transcript  *)
(* text renderer of the pages, and the response normalisation of the       *)
(* transcription routes.                                                   *)
(*                                                                         *)
(* Strings are sequences of one-character strings, so that the string      *)
(* operations of the code (replace, split, includes, parseFloat, parseInt, *)
(* the regular expressions) are computed character by character.           *)
(* Numbers are exact decimals n / d (d a power of ten) or NaN; binary      *)
(* floating-point rounding is not modelled.                                *)
(***************************************************************************)
EXTENDS Integers, Sequences, FiniteSets, TLC

(***************************************************************************)
(* Bounds of the model.                                                    *)
(***************************************************************************)
\* longest free-form content of a bracketed token, in characters
MaxInner == 3
\* largest hour, minute, second, tenth of the generated well-formed tokens
MaxHour == 1
MaxMinute == 2
MaxSecond == 11
MaxTenth == 2
\* longest query string of a base URL, in parameters
MaxQuery == 2
\* longest free-form transcript text, in characters
MaxTextLen == 4
\* most calls of the store API in a run, and the last millisecond of the
\* clock
MaxOps == 3
MaxClock == 1
\* most segments of a scrape transcript array, most chunks of a chunked
\* response
MaxSegments == 2
MaxChunks == 2

(***************************************************************************)
(* Characters and strings.                                                 *)
(***************************************************************************)
DigitChars == <<"0", "1", "2", "3", "4", "5", "6", "7", "8", "9">>

IsDigit(c) == \E i \in 1..Len(DigitChars) : DigitChars[i] = c

DigitVal(c) == (CHOOSE i \in 1..Len(DigitChars) : DigitChars[i] = c) - 1

\* the StrWhiteSpaceChar characters that occur in the model's texts
IsSpace(c) == c \in {" ", "\n", "\t"}

\* String.prototype.includes with a one-character needle
Includes(s, c) == \E i \in 1..Len(s) : s[i] = c

RECURSIVE Concat(_)
\* the concatenation of a sequence of strings
Concat(ss) == IF ss = <<>> THEN <<>> ELSE Head(ss) \o Concat(Tail(ss))

RECURSIVE RemoveAll(_, _)
\* s.replace(/[...]/g, '') for a character class cs
RemoveAll(s, cs) ==
    IF s = <<>> THEN <<>>
    ELSE IF Head(s) \in cs THEN RemoveAll(Tail(s), cs)
    ELSE <<Head(s)>> \o RemoveAll(Tail(s), cs)

\* s.replace(c, '') with a string pattern: only the first occurrence goes
RemoveFirst(s, c) ==
    IF ~Includes(s, c) THEN s
    ELSE LET i == CHOOSE k \in 1..Len(s) :
                       s[k] = c /\ \A j \in 1..(k - 1) : s[j] # c
         IN SubSeq(s, 1, i - 1) \o SubSeq(s, i + 1, Len(s))

RECURSIVE SplitOn(_, _)
\* s.split(c): the pieces between the separators, empty pieces kept
SplitOn(s, c) ==
    IF ~Includes(s, c) THEN <<s>>
    ELSE LET i == CHOOSE k \in 1..Len(s) :
                       s[k] = c /\ \A j \in 1..(k - 1) : s[j] # c
         IN <<SubSeq(s, 1, i - 1)>> \o SplitOn(SubSeq(s, i + 1, Len(s)), c)

RECURSIVE DigitRun(_, _)
\* the number of consecutive digits of s from position i on
DigitRun(s, i) ==
    IF i <= Len(s) /\ IsDigit(s[i]) THEN 1 + DigitRun(s, i + 1) ELSE 0

RECURSIVE SpaceRun(_, _)
SpaceRun(s, i) ==
    IF i <= Len(s) /\ IsSpace(s[i]) THEN 1 + SpaceRun(s, i + 1) ELSE 0

RECURSIVE DigitsValue(_, _, _)
\* the value of the n digits of s that start at position i
DigitsValue(s, i, n) ==
    IF n = 0 THEN 0
    ELSE 10 * DigitsValue(s, i, n - 1) + DigitVal(s[i + n - 1])

RECURSIVE Pow10(_)
Pow10(k) == IF k = 0 THEN 1 ELSE 10 * Pow10(k - 1)

(***************************************************************************)
(* Numbers: a JavaScript number is NaN or the decimal n / d.               *)
(***************************************************************************)
NaN == [nan |-> TRUE, n |-> 0, d |-> 1]

RECURSIVE Num(_, _)
\* the decimal n / d in lowest decimal terms, so that equal numbers are
\* equal records
Num(n, d) ==
    IF d > 1 /\ n % 10 = 0 THEN Num(n \div 10, d \div 10)
    ELSE [nan |-> FALSE, n |-> n, d |-> d]

Int2Num(k) == Num(k, 1)

NumAdd(a, b) ==
    IF a.nan \/ b.nan THEN NaN ELSE Num(a.n * b.d + b.n * a.d, a.d * b.d)

NumMul(a, b) ==
    IF a.nan \/ b.nan THEN NaN ELSE Num(a.n * b.n, a.d * b.d)

\* Math.floor
MathFloor(a) == IF a.nan THEN NaN ELSE Num(a.n \div a.d, 1)

RECURSIVE NatToString(_)
NatToString(k) ==
    IF k < 10 THEN <<DigitChars[k + 1]>>
    ELSE NatToString(k \div 10) \o <<DigitChars[(k % 10) + 1]>>

\* Number::toString of an integer-valued number or NaN (template literal)
NumberToString(a) ==
    IF a.nan THEN <<"N", "a", "N">>
    ELSE IF a.n < 0 THEN <<"-">> \o NatToString(-a.n)
    ELSE NatToString(a.n)

\* parseFloat: leading white space, an optional sign, then the longest
\* prefix "digits [. digits]" or ". digits"; NaN when there is no digit.
\* (Exponents and "Infinity" need letters no token of the model has in
\* that position.)
ParseFloat(s) ==
    LET i0 == 1 + SpaceRun(s, 1)
        signed == i0 <= Len(s) /\ s[i0] \in {"+", "-"}
        i1 == IF signed THEN i0 + 1 ELSE i0
        il == DigitRun(s, i1)
        dot == i1 + il <= Len(s) /\ s[i1 + il] = "."
        fl == IF dot THEN DigitRun(s, i1 + il + 1) ELSE 0
        mag == DigitsValue(s, i1, il) * Pow10(fl)
               + DigitsValue(s, i1 + il + 1, fl)
    IN IF il = 0 /\ fl = 0 THEN NaN
       ELSE Num(IF signed /\ s[i0] = "-" THEN -mag ELSE mag, Pow10(fl))

\* parseInt with the default radix: leading white space, an optional sign,
\* then the longest prefix of digits; NaN when there is none.
ParseInt(s) ==
    LET i0 == 1 + SpaceRun(s, 1)
        signed == i0 <= Len(s) /\ s[i0] \in {"+", "-"}
        i1 == IF signed THEN i0 + 1 ELSE i0
        il == DigitRun(s, i1)
        mag == DigitsValue(s, i1, il)
    IN IF il = 0 THEN NaN
       ELSE Num(IF signed /\ s[i0] = "-" THEN -mag ELSE mag, 1)

(***************************************************************************)
(* URLs: the origin and path as one string, and the query as the ordered   *)
(* list of its (name, value) pairs, which is what new URL(..).searchParams *)
(* holds and url.toString() writes back.                                   *)
(***************************************************************************)
NoUrl == [path |-> "", query |-> <<>>]

RECURSIVE DropName(_, _)
\* the pairs of q whose name is not k, in order
DropName(q, k) ==
    IF q = <<>> THEN <<>>
    ELSE IF Head(q).k = k THEN DropName(Tail(q), k)
    ELSE <<Head(q)>> \o DropName(Tail(q), k)

\* URLSearchParams.set: the first pair named k gets the value and the other
\* pairs named k are removed; with no such pair, one is appended
SearchParamsSet(q, k, v) ==
    IF \E i \in 1..Len(q) : q[i].k = k
    THEN LET i == CHOOSE a \in 1..Len(q) :
                       q[a].k = k /\ \A b \in 1..(a - 1) : q[b].k # k
         IN SubSeq(q, 1, i - 1) \o <<[k |-> k, v |-> v]>>
            \o DropName(SubSeq(q, i + 1, Len(q)), k)
    ELSE Append(q, [k |-> k, v |-> v])

(***************************************************************************)
(* The timestamp codec of the home page.                                   *)
(***************************************************************************)
\* parseTimestamp with the hours of HH:MM:SS.s weighted like minutes
parseTimestampHoursAsMinutes(timestamp) ==
    LET timeStr == RemoveAll(timestamp, {"[", "]"})
    IN IF Includes(timeStr, "s")
       THEN ParseFloat(RemoveFirst(timeStr, "s"))
       ELSE IF Includes(timeStr, ":")
       THEN LET parts == SplitOn(timeStr, ":")
            IN IF Len(parts) = 2
               THEN NumAdd(NumMul(ParseInt(parts[1]), Int2Num(60)),
                           ParseFloat(parts[2]))
               ELSE IF Len(parts) = 3
               THEN NumAdd(NumAdd(NumMul(ParseInt(parts[1]), Int2Num(60)),
                                  NumMul(ParseInt(parts[2]), Int2Num(60))),
                           ParseFloat(parts[3]))
               ELSE Int2Num(0)
       ELSE Int2Num(0)

parseTimestamp(timestamp) ==
    LET timeStr == RemoveAll(timestamp, {"[", "]"})
    IN IF Includes(timeStr, "s")
       THEN ParseFloat(RemoveFirst(timeStr, "s"))
       ELSE IF Includes(timeStr, ":")
       THEN LET parts == SplitOn(timeStr, ":")
            IN IF Len(parts) = 2
               THEN NumAdd(NumMul(ParseInt(parts[1]), Int2Num(60)),
                           ParseFloat(parts[2]))
               ELSE IF Len(parts) = 3
               THEN NumAdd(NumAdd(NumMul(ParseInt(parts[1]), Int2Num(3600)),
                                  NumMul(ParseInt(parts[2]), Int2Num(60))),
                           ParseFloat(parts[3]))
               ELSE Int2Num(0)
       ELSE Int2Num(0)

createTimestampUrl(timestamp, baseUrl) ==
    LET seconds == MathFloor(parseTimestamp(timestamp))
    IN [path |-> baseUrl.path,
        query |-> SearchParamsSet(baseUrl.query, "t",
                                  NumberToString(seconds) \o <<"s">>)]

(***************************************************************************)
(* The timestamp codec of the saved-transcript page (its own copy).        *)
(***************************************************************************)
parseTimestampSaved(timestamp) ==
    LET timeStr == RemoveAll(timestamp, {"[", "]"})
    IN IF Includes(timeStr, "s")
       THEN ParseFloat(RemoveFirst(timeStr, "s"))
       ELSE IF Includes(timeStr, ":")
       THEN LET parts == SplitOn(timeStr, ":")
            IN IF Len(parts) = 2
               THEN NumAdd(NumMul(ParseInt(parts[1]), Int2Num(60)),
                           ParseFloat(parts[2]))
               ELSE IF Len(parts) = 3
               THEN NumAdd(NumAdd(NumMul(ParseInt(parts[1]), Int2Num(3600)),
                                  NumMul(ParseInt(parts[2]), Int2Num(60))),
                           ParseFloat(parts[3]))
               ELSE Int2Num(0)
       ELSE Int2Num(0)

\* createTimestampUrl with searchParams.append in place of searchParams.set
createTimestampUrlAppend(timestamp, baseUrl) ==
    LET seconds == MathFloor(parseTimestampSaved(timestamp))
    IN [path |-> baseUrl.path,
        query |-> Append(baseUrl.query,
                         [k |-> "t", v |-> NumberToString(seconds) \o <<"s">>])]

createTimestampUrlSaved(timestamp, baseUrl) ==
    LET seconds == MathFloor(parseTimestampSaved(timestamp))
    IN [path |-> baseUrl.path,
        query |-> SearchParamsSet(baseUrl.query, "t",
                                  NumberToString(seconds) \o <<"s">>)]

(***************************************************************************)
(* The renderer's split: text.split(/(\[[^\]]+\])/g).                      *)
(***************************************************************************)
\* the last position of the match of /\[[^\]]+\]/ that starts at position
\* i of s, or 0 when there is none: "[", one or more characters other than
\* "]", then "]"
BracketMatchEnd(s, i) ==
    IF /\ i + 2 <= Len(s)
       /\ s[i] = "["
       /\ s[i + 1] # "]"
       /\ \E j \in (i + 2)..Len(s) : s[j] = "]"
    THEN CHOOSE j \in (i + 2)..Len(s) :
             s[j] = "]" /\ \A m \in (i + 2)..(j - 1) : s[m] # "]"
    ELSE 0

RECURSIVE SplitFromNoCapture(_, _, _)
\* the split loop of a pattern without its capture group: the matches are
\* separators and are not kept
SplitFromNoCapture(s, p, q) ==
    IF q > Len(s) THEN <<SubSeq(s, p, Len(s))>>
    ELSE LET e == BracketMatchEnd(s, q)
         IN IF e = 0 THEN SplitFromNoCapture(s, p, q + 1)
            ELSE <<SubSeq(s, p, q - 1)>> \o SplitFromNoCapture(s, e + 1, e + 1)

RECURSIVE SplitFrom(_, _, _)
\* the split loop: p is where the current piece starts, q where the next
\* match is tried; a match closes the piece and is itself kept (the
\* pattern's capture group)
SplitFrom(s, p, q) ==
    IF q > Len(s) THEN <<SubSeq(s, p, Len(s))>>
    ELSE LET e == BracketMatchEnd(s, q)
         IN IF e = 0 THEN SplitFrom(s, p, q + 1)
            ELSE <<SubSeq(s, p, q - 1), SubSeq(s, q, e)>>
                 \o SplitFrom(s, e + 1, e + 1)

SplitTimestamps(text) == SplitFrom(text, 1, 1)

\* part.match(/^\[[^\]]+\]$/)
IsBracketRun(part) ==
    /\ Len(part) >= 3
    /\ part[1] = "["
    /\ part[Len(part)] = "]"
    /\ \A i \in 2..(Len(part) - 1) : part[i] # "]"

(***************************************************************************)
(* The label of a timestamp pill on the saved-transcript page.             *)
(***************************************************************************)
\* the number of characters of the match of /\.\d+/ at position j of s
FractionAt(s, j) ==
    IF j <= Len(s) /\ s[j] = "." /\ DigitRun(s, j + 1) >= 1
    THEN 1 + DigitRun(s, j + 1)
    ELSE 0

\* where the fractional part starts in the match of /(\d+)\.\d+s/ at
\* position i of s, or 0 when the pattern does not match there
SecondsFraction(s, i) ==
    LET a == DigitRun(s, i)
        f == FractionAt(s, i + a)
    IN IF a >= 1 /\ f >= 1 /\ i + a + f <= Len(s) /\ s[i + a + f] = "s"
       THEN i + a ELSE 0

\* the same for /(\d+):(\d+)\.\d+/
MinutesFraction(s, i) ==
    LET a == DigitRun(s, i)
        b == DigitRun(s, i + a + 1)
    IN IF /\ a >= 1
          /\ i + a <= Len(s) /\ s[i + a] = ":"
          /\ b >= 1
          /\ FractionAt(s, i + a + 1 + b) >= 1
       THEN i + a + 1 + b ELSE 0

\* the same for /(\d+):(\d+):(\d+)\.\d+/
TimecodeFraction(s, i) ==
    LET a == DigitRun(s, i)
        b == DigitRun(s, i + a + 1)
        c == DigitRun(s, i + a + 1 + b + 1)
    IN IF /\ a >= 1
          /\ i + a <= Len(s) /\ s[i + a] = ":"
          /\ b >= 1
          /\ i + a + 1 + b <= Len(s) /\ s[i + a + 1 + b] = ":"
          /\ c >= 1
          /\ FractionAt(s, i + a + 1 + b + 1 + c) >= 1
       THEN i + a + 1 + b + 1 + c ELSE 0

\* the fraction position of the leftmost match of a pattern in a string,
\* given the pattern's fraction position fr[i] for a match at each i (0: no
\* match at i); 0 when the pattern matches nowhere
FirstFraction(fr) ==
    IF \E i \in DOMAIN fr : fr[i] # 0
    THEN fr[CHOOSE a \in DOMAIN fr :
                fr[a] # 0 /\ \A b \in DOMAIN fr : b < a => fr[b] = 0]
    ELSE 0

\* s.replace(pattern, the groups without the fraction): the match loses
\* the fraction at position j; without a match (j = 0) s is unchanged
DropFractionAt(s, j) ==
    IF j = 0 THEN s
    ELSE SubSeq(s, 1, j - 1) \o SubSeq(s, j + FractionAt(s, j), Len(s))

displayTimeOf(part) ==
    LET displayTime == RemoveAll(part, {"[", "]"})
    IN IF Includes(displayTime, "s") /\ Includes(displayTime, ".")
       THEN DropFractionAt(displayTime,
                FirstFraction([i \in 1..Len(displayTime) |->
                                  SecondsFraction(displayTime, i)]))
       ELSE IF Includes(displayTime, ":") /\ Includes(displayTime, ".")
       THEN LET first == DropFractionAt(displayTime,
                             FirstFraction([i \in 1..Len(displayTime) |->
                                               TimecodeFraction(displayTime, i)]))
            IN DropFractionAt(first,
                   FirstFraction([i \in 1..Len(first) |->
                                     MinutesFraction(first, i)]))
       ELSE displayTime

(***************************************************************************)
(* The renderers.  A segment is what one element of the output shows:      *)
(* kind "text" (plain text), "link" (an anchor with href) or "stamp" (a    *)
(* styled span without a link); src is the piece of the input it was made  *)
(* from and label the text it displays.                                    *)
(***************************************************************************)
TextSegment(part) ==
    [kind |-> "text", src |-> part, label |-> part, href |-> NoUrl]

\* the home page's renderer without its fast path
renderTranscriptTextAlwaysSplit(text, hasTimestamps, videoUrl) ==
    LET parts == SplitTimestamps(text)
    IN [index \in 1..Len(parts) |->
           IF IsBracketRun(parts[index])
           THEN [kind |-> "link", src |-> parts[index],
                 label |-> parts[index],
                 href |-> createTimestampUrl(parts[index], videoUrl)]
           ELSE TextSegment(parts[index])]

\* the home page
renderTranscriptText(text, hasTimestamps, videoUrl) ==
    IF ~hasTimestamps \/ ~Includes(text, "[")
    THEN <<TextSegment(text)>>
    ELSE LET parts == SplitTimestamps(text)
         IN [index \in 1..Len(parts) |->
                IF IsBracketRun(parts[index])
                THEN [kind |-> "link", src |-> parts[index],
                      label |-> parts[index],
                      href |-> createTimestampUrl(parts[index], videoUrl)]
                ELSE TextSegment(parts[index])]

\* the saved-transcript page
renderTranscriptTextSaved(text, videoUrl) ==
    IF ~Includes(text, "[")
    THEN <<TextSegment(text)>>
    ELSE LET parts == SplitTimestamps(text)
         IN [index \in 1..Len(parts) |->
                IF IsBracketRun(parts[index])
                THEN [kind |-> "link", src |-> parts[index],
                      label |-> displayTimeOf(parts[index]),
                      href |-> createTimestampUrlSaved(parts[index], videoUrl)]
                ELSE TextSegment(parts[index])]

\* the home page without links (src/app/page.tsx)
renderTranscriptTextPlain(text, hasTimestamps) ==
    IF ~hasTimestamps \/ ~Includes(text, "[")
    THEN <<TextSegment(text)>>
    ELSE LET parts == SplitTimestamps(text)
         IN [index \in 1..Len(parts) |->
                IF IsBracketRun(parts[index])
                THEN [kind |-> "stamp", src |-> parts[index],
                      label |-> parts[index], href |-> NoUrl]
                ELSE TextSegment(parts[index])]

(***************************************************************************)
(* Inputs of the codec: bracketed tokens.                                  *)
(***************************************************************************)
Pad2(k) == <<DigitChars[(k \div 10) + 1], DigitChars[(k % 10) + 1]>>

\* the three formats of the transcript service: "[12.3s]" (or "[12s]"),
\* "[MM:SS.s]" and "[HH:MM:SS.s]"
FormatToken(o) ==
    IF o.shape = "seconds"
    THEN <<"[">> \o NatToString(o.s)
         \o (IF o.frac THEN <<".", DigitChars[o.t + 1]>> ELSE <<>>)
         \o <<"s", "]">>
    ELSE IF o.shape = "minutes"
    THEN <<"[">> \o Pad2(o.m) \o <<":">> \o Pad2(o.s)
         \o <<".", DigitChars[o.t + 1]>> \o <<"]">>
    ELSE IF o.shape = "timecode"
    THEN <<"[">> \o Pad2(o.h) \o <<":">> \o Pad2(o.m) \o <<":">> \o Pad2(o.s)
         \o <<".", DigitChars[o.t + 1]>> \o <<"]">>
    ELSE <<"[">> \o o.inner \o <<"]">>

\* the tokens named by the specification's scenarios
ScenarioInners ==
    { <<"l", "a", "u", "g", "h", "s">>,
      <<"m", "u", "s", "i", "c">>,
      <<"i", "n", "a", "u", "d", "i", "b", "l", "e">>,
      <<"a", ":", "b">>,
      <<"1", ":", "2", ":", "3", ":", "4">>,
      <<"1", "2", "3", ".", "4", "s">>,
      <<"0", "2", ":", "0", "3", ".", "4">>,
      <<"0", "1", ":", "0", "2", ":", "0", "3", ".", "4">> }

TokenChars == {"1", "s", ":", ".", "-", "a", "["}

\* the strings over cs of length 1 .. n
StringsUpTo(cs, n) == UNION {[1..k -> cs] : k \in 1..n}

WellFormedOrigins ==
    [shape : {"seconds"}, h : {0}, m : {0}, s : 0..MaxSecond,
     t : 0..MaxTenth, frac : {TRUE}, inner : {<<>>}]
    \cup [shape : {"seconds"}, h : {0}, m : {0}, s : 0..MaxSecond,
          t : {0}, frac : {FALSE}, inner : {<<>>}]
    \cup [shape : {"minutes"}, h : {0}, m : 0..MaxMinute, s : 0..MaxSecond,
          t : 0..MaxTenth, frac : {TRUE}, inner : {<<>>}]
    \cup [shape : {"timecode"}, h : 0..MaxHour, m : 0..MaxMinute,
          s : 0..MaxSecond, t : 0..MaxTenth, frac : {TRUE}, inner : {<<>>}]
    \cup { [shape |-> "seconds", h |-> 0, m |-> 0, s |-> 123, t |-> 4,
            frac |-> TRUE, inner |-> <<>>],
           [shape |-> "minutes", h |-> 0, m |-> 2, s |-> 59, t |-> 9,
            frac |-> TRUE, inner |-> <<>>],
           [shape |-> "timecode", h |-> 10, m |-> 59, s |-> 59, t |-> 9,
            frac |-> TRUE, inner |-> <<>>] }

FreeOrigins ==
    [shape : {"free"}, h : {0}, m : {0}, s : {0}, t : {0}, frac : {FALSE},
     inner : StringsUpTo(TokenChars, MaxInner) \cup ScenarioInners]

TokenOrigins == WellFormedOrigins \cup FreeOrigins

(***************************************************************************)
(* Inputs of the codec: base URLs.                                         *)
(***************************************************************************)
QueryPairs ==
    { [k |-> "v", v |-> <<"a", "b", "c">>],
      [k |-> "t", v |-> <<"4", "2", "s">>],
      [k |-> "list", v |-> <<"x">>] }

BaseUrls ==
    [path : {"https://youtube.com/watch"},
     query : UNION {[1..k -> QueryPairs] : k \in 0..MaxQuery}]

(***************************************************************************)
(* State.                                                                  *)
(***************************************************************************)
VARIABLES
    \* the codec: the token under conversion (origin says how it was
    \* generated), the base URL, and the results of the calls
    origin, token, baseUrl, parsed, builtUrl, codecPc,
    \* the renderer: its arguments and the segments it returned
    text, hasTimestamps, videoUrl, segments, renderPc,
    \* the transcription routes: the route a request goes to, the request,
    \* the environment, what ytdl and the backend come to, and the response
    route, request, env, ytdlOut, backend, response, routePc,
    \* the page that sent the request: its selected service and its
    \* loading, error and transcript state
    page,
    \* the transcript store: data/transcripts.json, the clock, the last
    \* call of the API and the one before it, the records that save has
    \* returned, the ids that delete has removed, and the number of calls
    storeFile, clock, lastOp, prevOp, savedRecords, deletedIds, opCount,
    \* two server processes on the same file: what each is doing
    writers,
    \* the retry loop of the AssemblyAI route
    retry,
    \* the saved-transcripts page, the save button of the home page, and the
    \* page of one saved transcript
    listPage, savePage, detailPage

codecVars == <<origin, token, baseUrl, parsed, builtUrl, codecPc>>
renderVars == <<text, hasTimestamps, videoUrl, segments, renderPc>>
routeVars ==
    <<route, request, env, ytdlOut, backend, response, routePc, page>>
storeVars ==
    <<storeFile, clock, lastOp, prevOp, savedRecords, deletedIds, opCount,
      writers>>
retryVars == <<retry>>
pageVars == <<listPage, savePage, detailPage>>
vars ==
    <<codecVars, renderVars, routeVars, storeVars, retryVars, pageVars>>

CodecIdle ==
    /\ origin = [shape |-> "free", h |-> 0, m |-> 0, s |-> 0, t |-> 0,
                 frac |-> FALSE, inner |-> <<"0">>]
    /\ token = <<"[", "0", "]">>
    /\ baseUrl = NoUrl
    /\ parsed = Int2Num(0)
    /\ builtUrl = NoUrl
    /\ codecPc = "idle"

RenderIdle ==
    /\ text = <<>>
    /\ hasTimestamps = FALSE
    /\ videoUrl = NoUrl
    /\ segments = <<>>
    /\ renderPc = "idle"

RouteIdle ==
    /\ route = "none"
    /\ request = [url |-> [given |-> FALSE]]
    /\ env = [ASSEMBLYAI_API_KEY |-> FALSE, SCRAPE_CREATORS_API_KEY |-> FALSE]
    /\ ytdlOut = [valid |-> FALSE]
    /\ backend = [kind |-> "none"]
    /\ response = [status |-> 0]
    /\ routePc = "idle"
    /\ page = [which |-> "none"]

\* no call of the store API: the file has not been created
NoOp == [kind |-> "none"]

StoreIdle ==
    /\ storeFile = [exists |-> FALSE, data |-> <<>>]
    /\ clock = 0
    /\ lastOp = NoOp
    /\ prevOp = NoOp
    /\ savedRecords = {}
    /\ deletedIds = {}
    /\ opCount = 0
    /\ writers = <<>>

RetryIdle == retry = [pc |-> "idle"]

PagesIdle ==
    /\ listPage = [pc |-> "idle"]
    /\ savePage = [pc |-> "idle"]
    /\ detailPage = [pc |-> "idle"]

(***************************************************************************)
(* The codec applied to one token: each copy of parseTimestamp and of      *)
(* createTimestampUrl is called on it.                                     *)
(***************************************************************************)
InitCodec ==
    /\ origin \in TokenOrigins
    /\ token = FormatToken(origin)
    /\ baseUrl = NoUrl
    /\ parsed = Int2Num(0)
    /\ builtUrl = NoUrl
    /\ codecPc = "start"
    /\ RenderIdle
    /\ RetryIdle
    /\ PagesIdle
    /\ RouteIdle
    /\ StoreIdle

ParseHome ==
    /\ codecPc = "start"
    /\ parsed' = parseTimestamp(token)
    /\ codecPc' = "parsedHome"
    /\ UNCHANGED <<origin, token, baseUrl, builtUrl, renderVars, routeVars, storeVars, retryVars, pageVars>>

ParseSaved ==
    /\ codecPc = "start"
    /\ parsed' = parseTimestampSaved(token)
    /\ codecPc' = "parsedSaved"
    /\ UNCHANGED <<origin, token, baseUrl, builtUrl, renderVars, routeVars, storeVars, retryVars, pageVars>>

BuildHome ==
    /\ codecPc = "start"
    /\ \E b \in BaseUrls :
          /\ baseUrl' = b
          /\ builtUrl' = createTimestampUrl(token, b)
    /\ codecPc' = "builtHome"
    /\ UNCHANGED <<origin, token, parsed, renderVars, routeVars, storeVars, retryVars, pageVars>>

BuildSaved ==
    /\ codecPc = "start"
    /\ \E b \in BaseUrls :
          /\ baseUrl' = b
          /\ builtUrl' = createTimestampUrlSaved(token, b)
    /\ codecPc' = "builtSaved"
    /\ UNCHANGED <<origin, token, parsed, renderVars, routeVars, storeVars, retryVars, pageVars>>

NextCodec == ParseHome \/ ParseSaved \/ BuildHome \/ BuildSaved

SpecCodec == InitCodec /\ [][NextCodec]_vars

(***************************************************************************)
(* Properties of the codec (under SpecCodec).                              *)
(***************************************************************************)
\* the offset a generated token encodes: hours, minutes, seconds, tenths
ExpectedOffset(o) == Num((o.h * 3600 + o.m * 60 + o.s) * 10 + o.t, 10)

\* a decimal numeral: digits, optionally followed by "." and digits
IsDecimal(s) ==
    LET a == DigitRun(s, 1)
    IN /\ a >= 1
       /\ \/ a = Len(s)
          \/ /\ a + 1 <= Len(s) /\ s[a + 1] = "."
             /\ DigitRun(s, a + 2) >= 1
             /\ a + 1 + DigitRun(s, a + 2) = Len(s)

IsDigits(s) == Len(s) >= 1 /\ DigitRun(s, 1) = Len(s)

\* the three recognized shapes of a token's content: "<seconds>s",
\* "MM:SS.s" and "HH:MM:SS.s"
RecognizedShape(inner) ==
    \/ /\ Len(inner) >= 2
       /\ inner[Len(inner)] = "s"
       /\ IsDecimal(SubSeq(inner, 1, Len(inner) - 1))
    \/ LET parts == SplitOn(inner, ":")
       IN \/ Len(parts) = 2 /\ IsDigits(parts[1]) /\ IsDecimal(parts[2])
          \/ /\ Len(parts) = 3
             /\ IsDigits(parts[1]) /\ IsDigits(parts[2])
             /\ IsDecimal(parts[3])

\* the content of a bracketed token
InnerOf(tok) == SubSeq(tok, 2, Len(tok) - 1)

Parsed == codecPc \in {"parsedHome", "parsedSaved"}
Built == codecPc \in {"builtHome", "builtSaved"}

\* C1: for every well-formed token, both copies of parseTimestamp return the
\* encoded offset: [Ns] yields N, [MM:SS.s] yields MM*60+SS.s and
\* [HH:MM:SS.s] yields HH*3600+MM*60+SS.s.
C1_WellFormedOffset ==
    (Parsed /\ origin.shape # "free") => parsed = ExpectedOffset(origin)

C1_Witness ==
    /\ codecPc = "parsedHome"
    /\ origin.shape = "timecode"
    /\ token = <<"[", "0", "1", ":", "0", "2", ":", "0", "3", ".", "2", "]">>
    /\ parsed = Num(37232, 10)

\* C2: for any malformed token (one whose content has none of the three
\* recognized shapes) parseTimestamp returns 0.
C2_MalformedIsZero ==
    (Parsed /\ ~RecognizedShape(InnerOf(token))) => parsed = Int2Num(0)

\* C3: every bracketed token parses to a non-negative number: never a
\* negative one, never NaN.
C3_NonNegativeOffset ==
    Parsed => (~parsed.nan /\ parsed.n >= 0)

\* the values of the query pairs named k, in order
ValuesOf(q, k) ==
    LET Sel(i) == q[i].k = k
        RECURSIVE From(_)
        From(i) == IF i > Len(q) THEN <<>>
                   ELSE IF Sel(i) THEN <<q[i].v>> \o From(i + 1)
                   ELSE From(i + 1)
    IN From(1)

\* C5: createTimestampUrl returns the base URL with its path and every
\* query parameter other than t unchanged, and with exactly one t, equal to
\* floor(parseTimestamp(token)) followed by "s".
C5_UrlFrame ==
    Built =>
        /\ builtUrl.path = baseUrl.path
        /\ DropName(builtUrl.query, "t") = DropName(baseUrl.query, "t")
        /\ ValuesOf(builtUrl.query, "t") =
             << NumberToString(MathFloor(
                    IF codecPc = "builtHome" THEN parseTimestamp(token)
                    ELSE parseTimestampSaved(token))) \o <<"s">> >>

C5_Witness ==
    /\ codecPc = "builtSaved"
    /\ token = <<"[", "1", "2", "3", ".", "4", "s", "]">>
    /\ baseUrl.query = << [k |-> "t", v |-> <<"4", "2", "s">>],
                          [k |-> "v", v |-> <<"a", "b", "c">>] >>
    /\ builtUrl.query = << [k |-> "t", v |-> <<"1", "2", "3", "s">>],
                           [k |-> "v", v |-> <<"a", "b", "c">>] >>

(***************************************************************************)
(* The renderers applied to one transcript text.                           *)
(***************************************************************************)
TextChars == {"[", "]", "1", "s", ":", "a"}

\* the texts of the specification's scenarios, and texts with empty
\* brackets, unbalanced brackets and adjacent tokens
ScenarioTexts ==
    { <<"H", "e", "l", "l", "o", " ", "[", "1", "2", "3", ".", "4", "s", "]",
        " ", "w", "o", "r", "l", "d">>,
      <<"[", "0", "2", ":", "0", "3", ".", "4", "]", " ", "i", "n", "t", "r",
        "o">>,
      <<"[", "0", "1", ":", "0", "2", ":", "0", "3", ".", "4", "]">>,
      <<"[", "5", "s", "]", " ", "h", "i">>,
      <<"[", "l", "a", "u", "g", "h", "s", "]", " ", "h", "i">>,
      <<"[", "i", "n", "a", "u", "d", "i", "b", "l", "e", "]">>,
      <<"[", "1", ".", "5", "s", "]", "[", "2", ".", "5", "s", "]">>,
      <<" ", "[", "]", " ", "[", "1", "s", "\n", "a", "]", "]", "[">>,
      <<"n", "o", " ", "b", "r", "a", "c", "k", "e", "t", "s", "]">> }

Texts ==
    {<<>>} \cup StringsUpTo(TextChars, MaxTextLen) \cup ScenarioTexts

VideoUrls ==
    { [path |-> "https://youtube.com/watch",
       query |-> <<[k |-> "v", v |-> <<"a", "b", "c">>]>>],
      [path |-> "https://youtube.com/watch",
       query |-> << [k |-> "v", v |-> <<"a", "b", "c">>],
                    [k |-> "t", v |-> <<"4", "2", "s">>] >>] }

InitRender ==
    /\ text \in Texts
    /\ hasTimestamps \in BOOLEAN
    /\ videoUrl \in VideoUrls
    /\ segments = <<>>
    /\ renderPc = "start"
    /\ CodecIdle
    /\ RetryIdle
    /\ PagesIdle
    /\ RouteIdle
    /\ StoreIdle

RenderHome ==
    /\ renderPc = "start"
    /\ segments' = renderTranscriptText(text, hasTimestamps, videoUrl)
    /\ renderPc' = "home"
    /\ UNCHANGED <<text, hasTimestamps, videoUrl, codecVars, routeVars, storeVars, retryVars, pageVars>>

\* the saved-transcript page renders every text as if it had timestamps
RenderSaved ==
    /\ renderPc = "start"
    /\ segments' = renderTranscriptTextSaved(text, videoUrl)
    /\ renderPc' = "saved"
    /\ UNCHANGED <<text, hasTimestamps, videoUrl, codecVars, routeVars, storeVars, retryVars, pageVars>>

RenderPlain ==
    /\ renderPc = "start"
    /\ segments' = renderTranscriptTextPlain(text, hasTimestamps)
    /\ renderPc' = "plain"
    /\ UNCHANGED <<text, hasTimestamps, videoUrl, codecVars, routeVars, storeVars, retryVars, pageVars>>

NextRender == RenderHome \/ RenderSaved \/ RenderPlain

SpecRender == InitRender /\ [][NextRender]_vars

(***************************************************************************)
(* Properties of the renderers (under SpecRender).                         *)
(***************************************************************************)
Rendered == renderPc \in {"home", "saved", "plain"}

\* C4: concatenating, in order, the pieces of the input that the segments
\* were made from reproduces the input text exactly.
C4_LosslessSplit ==
    Rendered => Concat([i \in 1..Len(segments) |-> segments[i].src]) = text

C4_Witness ==
    /\ renderPc = "home"
    /\ hasTimestamps
    /\ text = <<" ", "[", "]", " ", "[", "1", "s", "\n", "a", "]", "]", "[">>
    /\ Len(segments) = 3
    /\ segments[1].src = <<" ", "[", "]", " ">>
    /\ segments[2].kind = "link"
    /\ segments[3].src = <<"]", "[">>

\* C6: given hasTimestamps = false (the renderers that take the flag), or a
\* text without "[", a renderer emits exactly one plain-text segment that
\* holds the whole text, and no link.
C6_FastPath ==
    /\ (renderPc \in {"home", "plain"} /\ ~hasTimestamps)
           => segments = <<TextSegment(text)>>
    /\ (Rendered /\ ~Includes(text, "["))
           => segments = <<TextSegment(text)>>

C6_Witness ==
    /\ renderPc = "home"
    /\ ~hasTimestamps
    /\ text = <<"[", "5", "s", "]", " ", "h", "i">>
    /\ segments = <<TextSegment(text)>>

\* a token's content with its fractional-seconds part cut off
TruncatedLabel(inner) ==
    IF Includes(inner, ".")
    THEN LET i == CHOOSE k \in 1..Len(inner) :
                       inner[k] = "." /\ \A j \in 1..(k - 1) : inner[j] # "."
         IN SubSeq(inner, 1, i - 1)
            \o SubSeq(inner, i + 1 + DigitRun(inner, i + 1), Len(inner))
    ELSE inner

\* C7: the label of every link made from a timestamp token is the token
\* with its brackets stripped and its fractional seconds truncated
\* ("[123.4s]" gives "123s").
C7_LinkLabel ==
    \A i \in 1..Len(segments) :
        (segments[i].kind = "link" /\ RecognizedShape(InnerOf(segments[i].src)))
            => segments[i].label = TruncatedLabel(InnerOf(segments[i].src))

\* C8: on the pages that link timestamps, a bracketed run that has none of
\* the recognized shapes still becomes a link, and the link's t parameter
\* is "0s".
C8_UnrecognizedLinksToStart ==
    (renderPc \in {"home", "saved"} /\ (renderPc = "home" => hasTimestamps)) =>
        \A i \in 1..Len(segments) :
            (IsBracketRun(segments[i].src)
             /\ ~RecognizedShape(InnerOf(segments[i].src)))
                => /\ segments[i].kind = "link"
                   /\ ValuesOf(segments[i].href.query, "t") = <<<<"0", "s">>>>

(***************************************************************************)
(* JSON values of the routes: a value is a record tagged with its type.    *)
(* Strings are character sequences; an absent field reads as undefined.    *)
(***************************************************************************)
Undefined == [t |-> "undefined"]
Str(s) == [t |-> "string", s |-> s]
Number(n) == [t |-> "number", n |-> n]
Array(a) == [t |-> "array", a |-> a]

\* ToBoolean: undefined, "" and 0 are falsy; arrays and objects are truthy
Truthy(v) ==
    CASE v.t = "undefined" -> FALSE
      [] v.t = "string" -> v.s # <<>>
      [] v.t = "number" -> v.n # 0
      [] OTHER -> TRUE

\* a || b
Or(a, b) == IF Truthy(a) THEN a ELSE b

RECURSIVE TrimStart(_)
TrimStart(s) ==
    IF s # <<>> /\ IsSpace(Head(s)) THEN TrimStart(Tail(s)) ELSE s

RECURSIVE TrimEnd(_)
TrimEnd(s) ==
    IF s # <<>> /\ IsSpace(s[Len(s)])
    THEN TrimEnd(SubSeq(s, 1, Len(s) - 1)) ELSE s

\* String.prototype.trim
Trim(s) == TrimEnd(TrimStart(s))

RECURSIVE Join(_, _)
\* Array.prototype.join of strings
Join(ss, sep) ==
    IF ss = <<>> THEN <<>>
    ELSE IF Len(ss) = 1 THEN ss[1]
    ELSE ss[1] \o sep \o Join(Tail(ss), sep)

RECURSIVE FilterNonBlank(_)
\* .filter((text) => text.trim().length > 0)
FilterNonBlank(ss) ==
    IF ss = <<>> THEN <<>>
    ELSE IF Len(Trim(Head(ss))) > 0
    THEN <<Head(ss)>> \o FilterNonBlank(Tail(ss))
    ELSE FilterNonBlank(Tail(ss))

(***************************************************************************)
(* Responses of the routes.  error is the body's error message ("" when    *)
(* the body has none); the other fields are the body's fields as JSON      *)
(* values.                                                                 *)
(***************************************************************************)
NoResponse ==
    [status |-> 0, error |-> "", text |-> Undefined,
     video_title |-> Undefined, audio_duration |-> Undefined,
     chunks_info |-> Undefined, service |-> "", service_used |-> ""]

ErrorResponse(status, message) == [NoResponse EXCEPT !.status = status,
                                                     !.error = message]

\* NextResponse.json(body) without a status
OkResponse(body_text, title, duration, chunks, service, service_used) ==
    [status |-> 200, error |-> "", text |-> body_text, video_title |-> title,
     audio_duration |-> duration, chunks_info |-> chunks,
     service |-> service, service_used |-> service_used]

(***************************************************************************)
(* Video URL validation.  A URL input is described by what new URL(url)    *)
(* makes of it: whether it parses, its host, its v parameter ("null" when  *)
(* it has none), its path after the first "/", and what the fallback       *)
(* pattern of extractVideoId captures from the raw string ("null": no      *)
(* match).                                                                 *)
(***************************************************************************)
\* the inline validation of the scrape and AssemblyAI routes: the video id,
\* or "" when the URL is rejected
InlineVideoId(url) ==
    IF ~url.parses THEN ""
    ELSE IF url.host = "youtube.com"
    THEN (IF url.v = "null" THEN "" ELSE url.v)
    ELSE IF url.host = "youtu.be" THEN url.path
    ELSE ""

\* fallbackTitle and fallbackDuration after the ytdl block
YtdlTitle(ytdl) ==
    IF ytdl.valid /\ ~ytdl.throws THEN Str(ytdl.title)
    ELSE Str(<<"Y", "o", "u", "T", "u", "b", "e", " ", "V", "i", "d", "e", "o">>)

YtdlDuration(ytdl) ==
    IF ytdl.valid /\ ~ytdl.throws THEN Number(ytdl.lengthSeconds)
    ELSE Undefined

(***************************************************************************)
(* What a call to a backend comes to.  kind "throws": fetch rejected with  *)
(* an error (name, code, message); kind "response": a response with a      *)
(* status, whose body parses as JSON or not (jsonOk); errorBody holds the  *)
(* detail / message / error fields of an error body ("" when absent) and   *)
(* data the fields of a success body.                                      *)
(***************************************************************************)
ResponseOk(out) == out.status >= 200 /\ out.status <= 299

\* a call that is never answered
Hangs ==
    [kind |-> "hangs", name |-> "", code |-> "", message |-> "",
     status |-> 0, jsonOk |-> FALSE,
     errorBody |-> [detail |-> "", message |-> "", error |-> ""],
     data |-> [t |-> "undefined"]]

\* fetch with the signal of an AbortController that a timer aborts: a call
\* that is not answered in time rejects with an AbortError
AbortAfter(out) ==
    IF out.kind = "hangs"
    THEN [out EXCEPT !.kind = "throws", !.name = "AbortError",
                     !.message = "This operation was aborted"]
    ELSE out

\* fetch with AbortSignal.timeout: a call that is not answered in time
\* rejects with a TimeoutError
TimeoutAfter(out) ==
    IF out.kind = "hangs"
    THEN [out EXCEPT !.kind = "throws", !.name = "TimeoutError",
                     !.message = "The operation was aborted due to timeout"]
    ELSE out

\* message.includes(word) for the error messages of the model
MessageIncludes(message, word) ==
    <<message, word>> \in
        { <<"fetch failed", "fetch">>,
          <<"getaddrinfo ENOTFOUND api.scrapecreators.com", "ENOTFOUND">>,
          <<"Bad Gateway: 502", "502">>,
          <<"Bad Gateway: 502", "5">>,
          <<"Internal Server Error: 500", "5">>,
          <<"retry in 5 minutes", "5">> }

\* errorData = await response.json().catch(() => ({}))
ErrorData(out) ==
    IF out.jsonOk THEN out.errorBody
    ELSE [detail |-> "", message |-> "", error |-> ""]

\* a || b for message strings
OrMessage(a, b) == IF a # "" THEN a ELSE b

(***************************************************************************)
(* POST /api/transcribe-scrape                                             *)
(***************************************************************************)
ScrapeSegmentText(segment) ==
    IF segment.t = "string" THEN segment.s
    ELSE IF Truthy(segment.text) THEN segment.text.s
    ELSE IF Truthy(segment.content) THEN segment.content.s
    ELSE <<>>

\* the extraction with an empty array counted as absent, so that the
\* top-level text is used in its place
ScrapeTranscriptTextEmptyArrayAbsent(data) ==
    IF Truthy(data.transcript) /\ data.transcript # Array(<<>>)
    THEN IF data.transcript.t = "string" THEN data.transcript.s
         ELSE IF data.transcript.t = "array"
         THEN Trim(Join(FilterNonBlank(
                  [i \in 1..Len(data.transcript.a) |->
                      ScrapeSegmentText(data.transcript.a[i])]), <<" ">>))
         ELSE IF data.transcript.t = "object" /\ Truthy(data.transcript.text)
         THEN data.transcript.text.s
         ELSE <<>>
    ELSE IF Truthy(data.text) THEN data.text.s
    ELSE IF Truthy(data.content) THEN data.content.s
    ELSE <<>>

ScrapeTranscriptText(data) ==
    IF Truthy(data.transcript)
    THEN IF data.transcript.t = "string" THEN data.transcript.s
         ELSE IF data.transcript.t = "array"
         THEN Trim(Join(FilterNonBlank(
                  [i \in 1..Len(data.transcript.a) |->
                      ScrapeSegmentText(data.transcript.a[i])]), <<" ">>))
         ELSE IF data.transcript.t = "object" /\ Truthy(data.transcript.text)
         THEN data.transcript.text.s
         ELSE <<>>
    ELSE IF Truthy(data.text) THEN data.text.s
    ELSE IF Truthy(data.content) THEN data.content.s
    ELSE <<>>

ScrapeVideoTitle(data, fallbackTitle) ==
    IF Truthy(data.video)
    THEN Or(Or(data.video.title, data.video.name), fallbackTitle)
    ELSE IF Truthy(data.title) THEN data.title
    ELSE IF Truthy(data.name) THEN data.name
    ELSE fallbackTitle

ScrapeAudioDuration(data, fallbackDuration) ==
    LET top == Or(Or(Or(data.duration, data.length), data.video_duration),
                  fallbackDuration)
        first == IF Truthy(data.video)
                 THEN Or(Or(data.video.duration, data.video.length),
                         fallbackDuration)
                 ELSE IF Truthy(data.title) \/ Truthy(data.name) THEN top
                 ELSE fallbackDuration
    IN IF ~Truthy(first) THEN top ELSE first

\* the responses to a backend response that is not ok
ScrapeErrorStatus(out) ==
    IF out.status = 404
    THEN ErrorResponse(400, "No transcript found for this video. The video may not have a transcript available or it may be private.")
    ELSE IF out.status = 403
    THEN ErrorResponse(400, "Video is private or restricted. Please try a public video.")
    ELSE IF out.status = 429
    THEN ErrorResponse(429, "Rate limit exceeded. Please try again in a few minutes.")
    ELSE IF out.status = 401
    THEN ErrorResponse(500, "Invalid API key. Please check your Scrape Creators API configuration.")
    ELSE IF out.status >= 500
    THEN ErrorResponse(503, "Scrape Creators service is temporarily unavailable. Please try again later.")
    ELSE ErrorResponse(out.status,
             OrMessage(OrMessage(ErrorData(out).message, ErrorData(out).error),
                       "Failed to extract transcript from video"))

\* the outer catch
ScrapeCaught(message) ==
    IF MessageIncludes(message, "fetch") \/ MessageIncludes(message, "ENOTFOUND")
    THEN ErrorResponse(500, "Network error occurred. Please check your internet connection and try again.")
    ELSE ErrorResponse(500, message)

ScrapePOST(req, environment, ytdl, answer) ==
    LET out == AbortAfter(answer) IN
    IF ~req.url.given
    THEN ErrorResponse(400, "YouTube URL is required")
    ELSE IF ~environment.SCRAPE_CREATORS_API_KEY
    THEN ErrorResponse(500, "Scrape Creators API key not configured")
    ELSE IF InlineVideoId(req.url) = ""
    THEN ErrorResponse(400, "Invalid YouTube URL format")
    ELSE IF out.kind = "throws"
    THEN IF out.name = "AbortError"
         THEN ErrorResponse(504, "Request timed out. The Scrape Creators service is taking too long to respond.")
         ELSE ScrapeCaught(out.message)
    ELSE IF ~ResponseOk(out) THEN ScrapeErrorStatus(out)
    ELSE IF ~out.jsonOk THEN ScrapeCaught("Unexpected token < in JSON at position 0")
    ELSE LET transcriptText == ScrapeTranscriptText(out.data)
         IN IF transcriptText = <<>> \/ Len(Trim(transcriptText)) = 0
            THEN ErrorResponse(400, "No transcript text could be extracted from this video. The video may not have a transcript available.")
            ELSE OkResponse(Str(Trim(transcriptText)),
                            ScrapeVideoTitle(out.data, YtdlTitle(ytdl)),
                            ScrapeAudioDuration(out.data, YtdlDuration(ytdl)),
                            Undefined, "scrape_creators", "")

(***************************************************************************)
(* POST /api/transcribe-youtube (direct captions), and its older copy.     *)
(***************************************************************************)
\* the video id, "null" when there is none
extractVideoId(url) ==
    IF url.parses
    THEN IF url.host = "youtube.com" THEN url.v
         ELSE IF url.host = "youtu.be" THEN url.path
         ELSE "null"
    ELSE url.regexId

\* the catch around the call of the transcript service
DirectCaught(name, code) ==
    IF name = "TimeoutError"
    THEN ErrorResponse(504, "Transcript service timed out. Please try again.")
    ELSE IF code = "ECONNREFUSED"
    THEN ErrorResponse(503, "Transcript service is not available. Please make sure the Python service is running.")
    ELSE ErrorResponse(500, "Failed to connect to transcript service. Please try again or use a different service.")

DirectErrorStatus(out) ==
    IF out.status = 404
    THEN ErrorResponse(400, OrMessage(ErrorData(out).detail,
             "No transcript found for this video. The video may not have captions available."))
    ELSE IF out.status = 500
    THEN ErrorResponse(500, OrMessage(ErrorData(out).detail,
             "Transcript service error. Please try again."))
    ELSE ErrorResponse(out.status, OrMessage(ErrorData(out).detail,
             "Failed to extract transcript from video."))

DirectPOST(req, ytdl, answer) ==
    LET out == TimeoutAfter(answer) IN
    IF ~req.url.given
    THEN ErrorResponse(400, "YouTube URL is required")
    ELSE IF extractVideoId(req.url) \in {"null", ""}
    THEN ErrorResponse(400, "Invalid YouTube URL format")
    ELSE IF out.kind = "throws" THEN DirectCaught(out.name, out.code)
    ELSE IF ~ResponseOk(out) THEN DirectErrorStatus(out)
    ELSE IF ~out.jsonOk THEN DirectCaught("SyntaxError", "")
    \* transcriptData.text.length of a missing text throws a TypeError
    ELSE IF out.data.text.t = "undefined" THEN DirectCaught("TypeError", "")
    ELSE OkResponse(out.data.text, YtdlTitle(ytdl),
                    Or(YtdlDuration(ytdl), out.data.total_duration),
                    Undefined, "youtube_transcript_api", "")

DirectPOSTOld(req, ytdl, answer) ==
    LET out == TimeoutAfter(answer) IN
    IF ~req.url.given
    THEN ErrorResponse(400, "YouTube URL is required")
    ELSE IF extractVideoId(req.url) \in {"null", ""}
    THEN ErrorResponse(400, "Invalid YouTube URL format")
    ELSE IF out.kind = "throws" THEN DirectCaught(out.name, out.code)
    ELSE IF ~ResponseOk(out) THEN DirectErrorStatus(out)
    ELSE IF ~out.jsonOk THEN DirectCaught("SyntaxError", "")
    ELSE IF out.data.text.t = "undefined" THEN DirectCaught("TypeError", "")
    ELSE OkResponse(out.data.text, YtdlTitle(ytdl), YtdlDuration(ytdl),
                    Undefined, "youtube_transcript_api", "")

(***************************************************************************)
(* POST /api/transcribe-chunked                                            *)
(***************************************************************************)
ChunkedCaught(name, code) ==
    IF name = "AbortError"
    THEN ErrorResponse(504, "Chunking service timed out. Video might be too long.")
    ELSE IF code = "ECONNREFUSED"
    THEN ErrorResponse(503, "Optimized chunking service is not available. Make sure it's running on port 8002.")
    ELSE ErrorResponse(500, "Failed to connect to optimized chunking service.")

ChunkedErrorStatus(out) ==
    IF out.status = 404
    THEN ErrorResponse(400, OrMessage(ErrorData(out).detail,
             "Video not found or inaccessible."))
    ELSE IF out.status >= 500
    THEN ErrorResponse(500, OrMessage(ErrorData(out).detail,
             "Chunking service error. Please try again."))
    ELSE ErrorResponse(out.status, OrMessage(ErrorData(out).detail,
             "Failed to transcribe video."))

\* the mapping with every chunk that has not failed counted as a success
ChunksInfoNotFailed(chunks) ==
    IF chunks.t = "undefined" THEN Undefined
    ELSE Array([i \in 1..Len(chunks.a) |->
                   [chunk_id |-> chunks.a[i].chunk_id,
                    status |-> chunks.a[i].status,
                    success |-> chunks.a[i].status # "failed"]])

\* transcriptData.chunks?.map(...)
ChunksInfo(chunks) ==
    IF chunks.t = "undefined" THEN Undefined
    ELSE Array([i \in 1..Len(chunks.a) |->
                   [chunk_id |-> chunks.a[i].chunk_id,
                    status |-> chunks.a[i].status,
                    success |-> chunks.a[i].status = "completed"]])

ChunkedPOST(req, environment, answer) ==
    LET out == AbortAfter(answer) IN
    IF ~req.url.given
    THEN ErrorResponse(400, "YouTube URL is required")
    ELSE IF ~environment.ASSEMBLYAI_API_KEY
    THEN ErrorResponse(500, "AssemblyAI API key not configured")
    ELSE IF out.kind = "throws" THEN ChunkedCaught(out.name, out.code)
    ELSE IF ~ResponseOk(out) THEN ChunkedErrorStatus(out)
    ELSE IF ~out.jsonOk THEN ChunkedCaught("SyntaxError", "")
    ELSE IF ~Truthy(out.data.text)
    THEN ErrorResponse(500, "No transcript text received from chunking service")
    ELSE OkResponse(out.data.text, out.data.video_title,
                    Or(out.data.audio_duration, out.data.total_duration),
                    ChunksInfo(out.data.chunks), "", "assemblyai_chunked")

(***************************************************************************)
(* POST /api/transcribe-youtube (AssemblyAI, single file).  The outcome of *)
(* the AssemblyAI side is: whether the audio is too large, how the upload  *)
(* goes, what each call of transcribe comes to ("ok" or the message of the *)
(* error it throws), and the transcript a successful call returns.         *)
(***************************************************************************)
maxRetries == 3

\* the first attempt that succeeds, 0 when none of the maxRetries does
FirstSuccess(attempts) ==
    IF \E i \in 1..maxRetries : attempts[i] = "ok"
    THEN CHOOSE i \in 1..maxRetries :
             attempts[i] = "ok" /\ \A j \in 1..(i - 1) : attempts[j] # "ok"
    ELSE 0

\* a call of transcribe that is made (those before it have thrown) is never
\* answered: client.transcripts.transcribe is awaited with no timeout
TranscribeHangs(attempts) ==
    \E i \in 1..maxRetries :
        /\ attempts[i] = "hangs"
        /\ \A j \in 1..(i - 1) : attempts[j] \notin {"ok", "hangs"}

\* the catch around the audio processing
AssemblyCaught ==
    ErrorResponse(500, "Failed to process audio stream. Please try again.")

\* all retries exhausted: the answer to the last error
AssemblyExhausted(message) ==
    IF MessageIncludes(message, "502")
    THEN ErrorResponse(503, "AssemblyAI service is temporarily unavailable. Please try again in a few minutes.")
    ELSE IF MessageIncludes(message, "5")
    THEN ErrorResponse(503, "AssemblyAI service error. Please try again later.")
    ELSE AssemblyCaught

AssemblyPOST(req, environment, ytdl, out) ==
    IF ~req.url.given
    THEN ErrorResponse(400, "YouTube URL is required")
    ELSE IF ~environment.ASSEMBLYAI_API_KEY
    THEN ErrorResponse(500, "AssemblyAI API key not configured")
    ELSE IF InlineVideoId(req.url) = ""
    THEN ErrorResponse(400, "Invalid YouTube URL format")
    ELSE IF ~ytdl.valid
    THEN ErrorResponse(400, "Invalid or inaccessible YouTube video")
    ELSE IF ytdl.throws
    THEN ErrorResponse(400, "Failed to access video. The video might be private, age-restricted, or temporarily unavailable.")
    ELSE IF ytdl.live
    THEN ErrorResponse(400, "Live videos are not supported")
    ELSE IF ytdl.audioFormats = 0
    THEN ErrorResponse(400, "No audio tracks found in this video")
    ELSE IF out.tooLarge
    THEN ErrorResponse(400, "Video is too large (>100MB). Please try a shorter video.")
    ELSE IF out.upload = "bufferTooLarge"
    THEN ErrorResponse(400, "Video is too large for processing. Please try a video under 1 hour.")
    ELSE IF out.upload = "fails" THEN AssemblyCaught
    \* client.files.upload is awaited with no timeout: no response is sent
    ELSE IF out.upload = "hangs" THEN NoResponse
    ELSE IF TranscribeHangs(out.attempts) THEN NoResponse
    ELSE IF FirstSuccess(out.attempts) = 0
    THEN AssemblyExhausted(out.attempts[maxRetries])
    ELSE IF ~Truthy(out.transcript)
    THEN ErrorResponse(500, "Failed to start transcription after multiple attempts.")
    ELSE IF out.transcript.status = "error"
    \* `Transcription failed: ${transcript.error}`
    THEN ErrorResponse(500, "Transcription failed: <transcript.error>")
    ELSE OkResponse(out.transcript.text, Str(ytdl.title),
                    out.transcript.audio_duration, Undefined, "", "")

(***************************************************************************)
(* Inputs of the routes.                                                   *)
(***************************************************************************)
UrlInput(given, parses, host, v, path, regexId) ==
    [given |-> given, parses |-> parses, host |-> host, v |-> v,
     path |-> path, regexId |-> regexId]

\* in order: no url; youtube.com/watch?v=abc; the same without v and with
\* an empty v; youtu.be/abc; youtu.be/; another host; two strings that
\* new URL rejects, "youtube.com/watch?v=abc" and "not a url"
UrlInputs ==
    { UrlInput(FALSE, FALSE, "", "null", "", "null"),
      UrlInput(TRUE, TRUE, "youtube.com", "abc", "watch", "abc"),
      UrlInput(TRUE, TRUE, "youtube.com", "null", "watch", "null"),
      UrlInput(TRUE, TRUE, "youtube.com", "", "watch", "null"),
      UrlInput(TRUE, TRUE, "youtu.be", "null", "abc", "abc"),
      UrlInput(TRUE, TRUE, "youtu.be", "null", "", "null"),
      UrlInput(TRUE, TRUE, "example.com", "abc", "watch", "null"),
      UrlInput(TRUE, FALSE, "", "null", "", "abc"),
      UrlInput(TRUE, FALSE, "", "null", "", "null") }

GoodUrl == UrlInput(TRUE, TRUE, "youtube.com", "abc", "watch", "abc")

Requests == [url : UrlInputs]

Envs == [ASSEMBLYAI_API_KEY : BOOLEAN, SCRAPE_CREATORS_API_KEY : BOOLEAN]

GoodEnv == [ASSEMBLYAI_API_KEY |-> TRUE, SCRAPE_CREATORS_API_KEY |-> TRUE]

Ytdl(valid, throws, lengthSeconds, live, audioFormats) ==
    [valid |-> valid, throws |-> throws, title |-> <<"Y", "t">>,
     lengthSeconds |-> lengthSeconds, live |-> live,
     audioFormats |-> audioFormats]

GoodYtdl == Ytdl(TRUE, FALSE, 31, FALSE, 1)

Ytdls ==
    { GoodYtdl,
      Ytdl(TRUE, FALSE, 0, FALSE, 1),
      Ytdl(FALSE, FALSE, 0, FALSE, 0),
      Ytdl(TRUE, TRUE, 0, FALSE, 0),
      Ytdl(TRUE, FALSE, 31, TRUE, 1),
      Ytdl(TRUE, FALSE, 31, FALSE, 0) }

NoErrorBody == [detail |-> "", message |-> "", error |-> ""]

Throws(name, code, message) ==
    [kind |-> "throws", name |-> name, code |-> code, message |-> message,
     status |-> 0, jsonOk |-> FALSE, errorBody |-> NoErrorBody,
     data |-> Undefined]

Responds(status, jsonOk, errorBody, data) ==
    [kind |-> "response", name |-> "", code |-> "", message |-> "",
     status |-> status, jsonOk |-> jsonOk, errorBody |-> errorBody,
     data |-> data]

\* the ways a call fails: it is never answered, it is aborted, the
\* connection is refused (as an error with a code, and as fetch reports
\* it), the host is not found; an error status with or without a JSON body;
\* a success status with a body that is not JSON
FailedOutcomes ==
    { Hangs,
      Throws("AbortError", "", "This operation was aborted"),
      Throws("TimeoutError", "", "The operation was aborted due to timeout"),
      Throws("Error", "ECONNREFUSED", "connect ECONNREFUSED 127.0.0.1:8001"),
      Throws("TypeError", "", "fetch failed"),
      Throws("Error", "ENOTFOUND",
             "getaddrinfo ENOTFOUND api.scrapecreators.com") }
    \cup { Responds(st, ok, body, Undefined) :
             st \in {400, 401, 403, 404, 429, 500, 502, 503},
             ok \in BOOLEAN,
             body \in { NoErrorBody,
                        [detail |-> "backend detail", message |-> "",
                         error |-> ""],
                        [detail |-> "", message |-> "backend message",
                         error |-> "backend error"] } }
    \cup { Responds(200, FALSE, NoErrorBody, Undefined) }

TextValues ==
    { Undefined, Str(<<>>), Str(<<" ">>), Str(<<"a">>),
      Str(<<"[", "1", "s", "]", " ", "a">>) }

\* a scrape segment: a string, or an object with text and content
ScrapeSegments ==
    { Str(<<>>), Str(<<"a">>) }
    \cup [t : {"object"},
          text : {Undefined, Str(<<>>), Str(<<" ">>), Str(<<"a">>)},
          content : {Undefined, Str(<<" ">>), Str(<<"b">>)}]

ScrapeTranscripts ==
    { Undefined, Str(<<>>), Str(<<" ">>), Str(<<"a">>), Str(<<" ", "a", " ">>) }
    \cup [t : {"object"}, text : {Undefined, Str(<<" ">>), Str(<<"a">>)}]
    \cup { Array(a) : a \in UNION {[1..k -> ScrapeSegments] : k \in 0..MaxSegments} }

ScrapeVideos ==
    { Undefined,
      [t |-> "object", title |-> Str(<<"V", "t">>), name |-> Undefined,
       duration |-> Number(11), length |-> Undefined],
      [t |-> "object", title |-> Undefined, name |-> Undefined,
       duration |-> Undefined, length |-> Undefined] }

\* every transcript with and without the top-level text and content, and
\* every placement of the title and the duration with a plain transcript
ScrapeDatas ==
    [transcript : ScrapeTranscripts,
     text : {Undefined, Str(<<"a">>)},
     content : {Undefined, Str(<<"c">>)},
     video : {Undefined},
     title : {Undefined},
     name : {Undefined},
     duration : {Undefined},
     length : {Undefined},
     video_duration : {Undefined}]
    \cup [transcript : {Str(<<"a">>)},
          text : {Undefined},
          content : {Undefined},
          video : ScrapeVideos,
          title : {Undefined, Str(<<"T", "t">>)},
          name : {Undefined},
          duration : {Undefined, Number(21)},
          length : {Undefined},
          video_duration : {Undefined}]

DirectDatas == [text : TextValues, total_duration : {Undefined, Number(41)}]

Chunks ==
    {Undefined}
    \cup { Array([i \in 1..k |-> [chunk_id |-> i, status |-> st[i]]]) :
             k \in 0..MaxChunks, st \in [1..MaxChunks -> {"completed", "failed", "processing"}] }

ChunkedDatas ==
    [text : TextValues,
     video_title : {Undefined, Str(<<"C", "t">>)},
     audio_duration : {Undefined, Number(51)},
     total_duration : {Undefined, Number(52)},
     chunks : Chunks]

AttemptOutcomes ==
    {"ok", "hangs", "Bad Gateway: 502", "Internal Server Error: 500",
     "Unauthorized"}

AssemblyTranscripts ==
    {Undefined}
    \cup [t : {"object"}, status : {"completed", "error"}, text : TextValues,
          audio_duration : {Undefined, Number(61)}]

AssemblyOutcomes ==
    [kind : {"assembly"},
     tooLarge : BOOLEAN,
     upload : {"stream", "buffer", "bufferTooLarge", "fails", "hangs"},
     attempts : [1..maxRetries -> AttemptOutcomes],
     transcript : AssemblyTranscripts]

Routes == {"scrape", "direct", "directOld", "chunked", "assembly"}

\* the success bodies of a route's backend
DataOutcomes(r) ==
    IF r = "scrape" THEN {Responds(200, TRUE, NoErrorBody, d) : d \in ScrapeDatas}
    ELSE IF r \in {"direct", "directOld"}
    THEN {Responds(200, TRUE, NoErrorBody, d) : d \in DirectDatas}
    ELSE IF r = "chunked"
    THEN {Responds(200, TRUE, NoErrorBody, d) : d \in ChunkedDatas}
    ELSE AssemblyOutcomes

\* the failures of a route's backend (those of the AssemblyAI calls are
\* part of its outcomes)
FailedOutcomesOf(r) == IF r = "assembly" THEN {} ELSE FailedOutcomes

\* one success of each backend
GoodOutcome(r) ==
    CHOOSE o \in DataOutcomes(r) :
        IF r = "assembly"
        THEN /\ ~o.tooLarge /\ o.upload = "stream"
             /\ o.attempts = [i \in 1..maxRetries |-> "ok"]
             /\ Truthy(o.transcript) /\ o.transcript.status = "completed"
             /\ o.transcript.text = Str(<<"a">>)
        ELSE IF r = "scrape" THEN o.data.transcript = Str(<<"a">>)
        ELSE o.data.text = Str(<<"a">>)

(***************************************************************************)
(* handleSubmit of the two pages, from the answer of the route on.         *)
(***************************************************************************)
\* the state of a page while its request is out: setLoading(true),
\* setError(''), setTranscript(null)
Submitted(which, selectedService) ==
    [which |-> which, selectedService |-> selectedService, loading |-> TRUE,
     error |-> "", transcript |-> Undefined]

\* the endpoint that each page calls for each of its services
PagesOf(r) ==
    IF r = "assembly"
    THEN {Submitted("home", "assemblyai"), Submitted("pageTsx", "assemblyai")}
    ELSE IF r = "chunked" THEN {Submitted("home", "assemblyai_chunked")}
    ELSE IF r = "scrape" THEN {Submitted("pageTsx", "scrape_creators")}
    ELSE {Submitted("home", "youtube_direct"),
          Submitted("pageTsx", "youtube_direct")}

\* the message for a 503 on the home page
UnavailableHome(selectedService) ==
    IF selectedService = "assemblyai"
    THEN "AssemblyAI service is temporarily unavailable. Please try again in a few minutes."
    ELSE IF selectedService = "assemblyai_chunked"
    THEN "AssemblyAI Chunking service is temporarily unavailable. Please try again in a few minutes."
    ELSE "YouTube Direct service is temporarily unavailable. Please try again in a few minutes."

\* the message for a 503 on page.tsx
UnavailablePage(selectedService) ==
    IF selectedService = "assemblyai"
    THEN "AssemblyAI service is temporarily unavailable. Please try again in a few minutes."
    ELSE IF selectedService = "scrape_creators"
    THEN "Scrape Creators service is temporarily unavailable. Please try again in a few minutes."
    ELSE "YouTube Direct service is temporarily unavailable. Please try again in a few minutes."

\* setError(message) and, in finally, setLoading(false)
Failed(p, message) == [p EXCEPT !.error = message, !.loading = FALSE]

\* setTranscript(data) and, in finally, setLoading(false)
Shown(p, data) == [p EXCEPT !.transcript = data.text, !.loading = FALSE]

\* the message thrown for a response that is not ok
NotOkMessage(unavailable, data) ==
    IF data.status = 503 THEN unavailable
    ELSE IF data.status >= 500 THEN "Server error occurred. Please try again."
    ELSE OrMessage(data.error, "Failed to transcribe video")

\* the home page without its check of the text
handleSubmitHomeNoTextCheck(p, data) ==
    IF ~(data.status >= 200 /\ data.status <= 299)
    THEN Failed(p, NotOkMessage(UnavailableHome(p.selectedService), data))
    ELSE Shown(p, data)

\* the home page
handleSubmitHome(p, data) ==
    IF ~(data.status >= 200 /\ data.status <= 299)
    THEN Failed(p, NotOkMessage(UnavailableHome(p.selectedService), data))
    ELSE IF ~Truthy(data.text)
    THEN Failed(p, "No transcript text received from the service. The video may not have captions available.")
    ELSE Shown(p, data)

\* page.tsx: data.text.substring is called before the status is looked at
handleSubmitPage(p, data) ==
    IF data.text.t # "string"
    THEN Failed(p, "Cannot read properties of undefined (reading 'substring')")
    ELSE IF ~(data.status >= 200 /\ data.status <= 299)
    THEN Failed(p, NotOkMessage(UnavailablePage(p.selectedService), data))
    ELSE Shown(p, data)

(***************************************************************************)
(* One request to one route.  The inputs are every request, environment    *)
(* and ytdl outcome with every failure and one success of the backend, and *)
(* every success body of the backend with a valid request.                 *)
(***************************************************************************)
InitRoutes ==
    /\ route \in Routes
    /\ \/ /\ request \in Requests
          /\ env \in Envs
          /\ ytdlOut \in Ytdls
          /\ backend \in FailedOutcomesOf(route) \cup {GoodOutcome(route)}
       \/ /\ request = [url |-> GoodUrl]
          /\ env = GoodEnv
          /\ ytdlOut \in {GoodYtdl, Ytdl(TRUE, TRUE, 0, FALSE, 0)}
          /\ backend \in DataOutcomes(route)
    /\ response = NoResponse
    /\ routePc = "start"
    /\ page \in PagesOf(route)
    /\ CodecIdle
    /\ RetryIdle
    /\ PagesIdle
    /\ RenderIdle
    /\ StoreIdle

PostScrape ==
    /\ routePc = "start" /\ route = "scrape"
    /\ response' = ScrapePOST(request, env, ytdlOut, backend)
    /\ routePc' = "done"
    /\ UNCHANGED <<route, request, env, ytdlOut, backend, page, codecVars,
                   renderVars, storeVars, retryVars, pageVars>>

PostDirect ==
    /\ routePc = "start" /\ route = "direct"
    /\ response' = DirectPOST(request, ytdlOut, backend)
    /\ routePc' = "done"
    /\ UNCHANGED <<route, request, env, ytdlOut, backend, page, codecVars,
                   renderVars, storeVars, retryVars, pageVars>>

PostDirectOld ==
    /\ routePc = "start" /\ route = "directOld"
    /\ response' = DirectPOSTOld(request, ytdlOut, backend)
    /\ routePc' = "done"
    /\ UNCHANGED <<route, request, env, ytdlOut, backend, page, codecVars,
                   renderVars, storeVars, retryVars, pageVars>>

PostChunked ==
    /\ routePc = "start" /\ route = "chunked"
    /\ response' = ChunkedPOST(request, env, backend)
    /\ routePc' = "done"
    /\ UNCHANGED <<route, request, env, ytdlOut, backend, page, codecVars,
                   renderVars, storeVars, retryVars, pageVars>>

PostAssembly ==
    /\ routePc = "start" /\ route = "assembly"
    /\ response' = AssemblyPOST(request, env, ytdlOut, backend)
    \* with no response the request stays pending
    /\ routePc' = IF response' = NoResponse THEN "pending" ELSE "done"
    /\ UNCHANGED <<route, request, env, ytdlOut, backend, page, codecVars,
                   renderVars, storeVars, retryVars, pageVars>>

\* the home page receives the answer
HandleSubmitHome ==
    /\ routePc = "done" /\ page.which = "home"
    /\ page' = handleSubmitHome(page, response)
    /\ routePc' = "shown"
    /\ UNCHANGED <<route, request, env, ytdlOut, backend, response, codecVars,
                   renderVars, storeVars, retryVars, pageVars>>

\* page.tsx receives the answer
HandleSubmitPage ==
    /\ routePc = "done" /\ page.which = "pageTsx"
    /\ page' = handleSubmitPage(page, response)
    /\ routePc' = "shown"
    /\ UNCHANGED <<route, request, env, ytdlOut, backend, response, codecVars,
                   renderVars, storeVars, retryVars, pageVars>>

NextRoutes ==
    \/ PostScrape \/ PostDirect \/ PostDirectOld \/ PostChunked
    \/ PostAssembly \/ HandleSubmitHome \/ HandleSubmitPage

SpecRoutes == InitRoutes /\ [][NextRoutes]_vars

(***************************************************************************)
(* One submit of a page, from the click to the end of handleSubmit: a      *)
(* valid request, with every failure of the backend and the success bodies *)
(* that differ in what the page is given.                                  *)
(***************************************************************************)
SubmitOutcomes(r) ==
    IF r = "scrape"
    THEN {o \in DataOutcomes(r) : o.data.transcript.t # "array"}
    ELSE IF r = "chunked"
    THEN {o \in DataOutcomes(r) : o.data.chunks = Undefined}
    ELSE IF r = "assembly"
    THEN {o \in DataOutcomes(r) :
             /\ ~o.tooLarge
             /\ \A i \in 2..maxRetries : o.attempts[i] = o.attempts[2]}
    ELSE DataOutcomes(r)

InitSubmit ==
    /\ route \in Routes
    /\ request = [url |-> GoodUrl]
    /\ env = GoodEnv
    /\ ytdlOut = GoodYtdl
    /\ backend \in FailedOutcomesOf(route) \cup SubmitOutcomes(route)
    /\ response = NoResponse
    /\ routePc = "start"
    /\ page \in PagesOf(route)
    /\ CodecIdle
    /\ RenderIdle
    /\ StoreIdle
    /\ RetryIdle
    /\ PagesIdle

\* a route that has a request answers it unless a call of its own never
\* returns, and the page handles the answer that it awaits
SpecSubmit == InitSubmit /\ [][NextRoutes]_vars /\ WF_vars(NextRoutes)

(***************************************************************************)
(* Claims about the routes.                                                *)
(***************************************************************************)
Answered == routePc \in {"done", "shown"}

IsBlank(v) == v.t = "string" /\ Len(Trim(v.s)) = 0

HasText(v) == v.t = "string" /\ Len(Trim(v.s)) > 0

\* the request got as far as a parsed success body of the scrape backend
ScrapeBodyRead ==
    /\ Answered /\ route = "scrape"
    /\ request.url.given /\ env.SCRAPE_CREATORS_API_KEY
    /\ InlineVideoId(request.url) # ""
    /\ backend.kind = "response" /\ ResponseOk(backend) /\ backend.jsonOk

NoTranscriptAnswer ==
    /\ response.status = 400
    /\ response.error = "No transcript text could be extracted from this video. The video may not have a transcript available."

\* C9: on every transcription route a success response carries a text that
\* is a string with something other than white space in it (a backend text
\* that is missing, empty or blank is answered with an error instead).
C9_SuccessHasText ==
    (Answered /\ response.status = 200) => HasText(response.text)

\* the part of C9 that the code keeps: the scrape route
ScrapeSuccessHasText ==
    (Answered /\ route = "scrape" /\ response.status = 200)
        => HasText(response.text)

\* a segment whose text is empty or white space: a blank string, or an
\* object whose text field is a blank string
SegmentTextIsBlank(segment) ==
    IF segment.t = "string" THEN IsBlank(segment) ELSE IsBlank(segment.text)

\* a segment that gives the joined text nothing: a blank string, an object
\* whose text is white space, or an object whose text is empty or missing
\* and whose content is blank or missing
SegmentGivesNothing(segment) ==
    IF segment.t = "string" THEN IsBlank(segment)
    ELSE \/ segment.text.t = "string" /\ segment.text.s # <<>>
            /\ IsBlank(segment.text)
         \/ /\ segment.text \in {Undefined, Str(<<>>)}
            /\ segment.content = Undefined \/ IsBlank(segment.content)

TranscriptIsArray == backend.data.transcript.t = "array"

\* C10 as stated: when the scrape backend returns an array whose segments
\* all have empty or white-space text (the empty array among them), the
\* route answers with the no-transcript error, status 400.
C10_BlankTextSegmentsRejected ==
    (/\ ScrapeBodyRead
     /\ TranscriptIsArray
     /\ \A i \in 1..Len(backend.data.transcript.a) :
            SegmentTextIsBlank(backend.data.transcript.a[i]))
        => NoTranscriptAnswer

\* C10, amended: when the scrape backend returns an array all of whose
\* segments give the joined text nothing (a blank string, a white-space
\* text, or an empty or missing text with a blank or missing content; the
\* empty array among them), the route answers with the no-transcript error,
\* status 400, whatever the other top-level fields are.
C10_EmptyJoinRejected ==
    (/\ ScrapeBodyRead
     /\ TranscriptIsArray
     /\ \A i \in 1..Len(backend.data.transcript.a) :
            SegmentGivesNothing(backend.data.transcript.a[i]))
        => NoTranscriptAnswer

\* transcript: [] next to a top-level text, answered with the error
C10_Witness ==
    /\ ScrapeBodyRead
    /\ backend.data.transcript = Array(<<>>)
    /\ HasText(backend.data.text)
    /\ NoTranscriptAnswer

\* the scrape route answered with a success
ScrapeSucceeded == ScrapeBodyRead /\ response.status = 200

\* the first value that is there (truthy), the last one when none is
FirstPresent(values) ==
    IF \E i \in 1..Len(values) : Truthy(values[i])
    THEN values[CHOOSE i \in 1..Len(values) :
                    Truthy(values[i]) /\ \A j \in 1..(i - 1) : ~Truthy(values[j])]
    ELSE values[Len(values)]

NestedTitle ==
    IF Truthy(backend.data.video)
    THEN FirstPresent(<<backend.data.video.title, backend.data.video.name>>)
    ELSE Undefined

TopLevelTitle == FirstPresent(<<backend.data.title, backend.data.name>>)

NestedDuration ==
    IF Truthy(backend.data.video)
    THEN FirstPresent(<<backend.data.video.duration, backend.data.video.length>>)
    ELSE Undefined

TopLevelDuration ==
    FirstPresent(<<backend.data.duration, backend.data.length,
                   backend.data.video_duration>>)

\* C11: in a scrape success the title and the duration are each the nested
\* video value when there is one, otherwise the top-level value when there
\* is one, and the locally fetched (ytdl) value only when the backend gives
\* neither.
C11_MetadataProbesBoth ==
    ScrapeSucceeded =>
        /\ response.video_title =
               FirstPresent(<<NestedTitle, TopLevelTitle, YtdlTitle(ytdlOut)>>)
        /\ response.audio_duration =
               FirstPresent(<<NestedDuration, TopLevelDuration,
                              YtdlDuration(ytdlOut)>>)

\* the title alone, and the duration alone
ScrapeTitleProbesBoth ==
    ScrapeSucceeded =>
        response.video_title =
            FirstPresent(<<NestedTitle, TopLevelTitle, YtdlTitle(ytdlOut)>>)

ScrapeDurationProbesBoth ==
    ScrapeSucceeded =>
        response.audio_duration =
            FirstPresent(<<NestedDuration, TopLevelDuration,
                           YtdlDuration(ytdlOut)>>)

\* the chunked route answered with a success to a body that has chunks
ChunkedSucceededWithChunks ==
    /\ Answered /\ route = "chunked" /\ response.status = 200
    /\ backend.data.chunks.t = "array"

\* C12: the chunks_info of a chunked success has one entry per chunk of the
\* backend's response, in the same order, and the success of an entry is
\* true exactly when the status of its chunk is "completed".
C12_ChunksInfo ==
    ChunkedSucceededWithChunks =>
        /\ response.chunks_info.t = "array"
        /\ Len(response.chunks_info.a) = Len(backend.data.chunks.a)
        /\ \A i \in 1..Len(backend.data.chunks.a) :
              /\ response.chunks_info.a[i].chunk_id = backend.data.chunks.a[i].chunk_id
              /\ response.chunks_info.a[i].status = backend.data.chunks.a[i].status
              /\ response.chunks_info.a[i].success
                     = (backend.data.chunks.a[i].status = "completed")

\* chunks [{1, completed}, {2, failed}] answered with success true, false
C12_Witness ==
    /\ ChunkedSucceededWithChunks
    /\ backend.data.chunks =
           Array(<<[chunk_id |-> 1, status |-> "completed"],
                   [chunk_id |-> 2, status |-> "failed"]>>)
    /\ response.chunks_info.a[1].success
    /\ ~response.chunks_info.a[2].success

(***************************************************************************)
(* The transcript store.  data/transcripts.json holds the collection as    *)
(* JSON: a Date is written as its ISO string and read back with new Date.  *)
(***************************************************************************)
NewDate(ms) == [t |-> "date", ms |-> ms]

\* Date.prototype.toJSON, and new Date(isoString)
DateToJSON(d) == [t |-> "isostring", ms |-> d.ms]

DateFromJSON(v) ==
    IF v.t = "isostring" THEN [t |-> "date", ms |-> v.ms]
    ELSE [t |-> "date", ms |-> -1]

\* JSON.stringify(transcripts, null, 2)
JSONStringify(transcripts) ==
    [i \in 1..Len(transcripts) |->
        [transcripts[i] EXCEPT !.createdAt = DateToJSON(@),
                               !.updatedAt = DateToJSON(@)]]

\* the collection that is read: none when there is no file, and none when
\* reading or parsing the file throws
readTranscripts(f, readThrows) ==
    IF ~f.exists THEN <<>>
    ELSE IF readThrows THEN <<>>
    ELSE [i \in 1..Len(f.data) |->
             [f.data[i] EXCEPT !.createdAt = DateFromJSON(@),
                               !.updatedAt = DateFromJSON(@)]]

\* the file after writeTranscripts (when writeFileSync does not throw)
writeTranscripts(transcripts) ==
    [exists |-> TRUE, data |-> JSONStringify(transcripts)]

Base36Chars ==
    <<"0", "1", "2", "3", "4", "5", "6", "7", "8", "9", "a", "b", "c", "d",
      "e", "f", "g", "h", "i", "j", "k", "l", "m", "n", "o", "p", "q", "r",
      "s", "t", "u", "v", "w", "x", "y", "z">>

RECURSIVE ToString36(_)
\* Number.prototype.toString(36) of a natural number
ToString36(n) ==
    IF n < Len(Base36Chars) THEN <<Base36Chars[n + 1]>>
    ELSE ToString36(n \div Len(Base36Chars))
             \o <<Base36Chars[(n % Len(Base36Chars)) + 1]>>


\* Math.random().toString(36).substr(2, 9) + Date.now().toString(36)
generateId(random, now) == random \o ToString36(now)

\* what a call of the store comes to: the file after it, whether it threw,
\* the value it returned and whether it wrote the file
StoreResult(f, threw, value, wrote) ==
    [file |-> f, threw |-> threw, value |-> value, wrote |-> wrote]

\* save with the new record put at the end
saveAppend(f, transcript, now, random, readThrows, writeThrows) ==
    LET transcripts == readTranscripts(f, readThrows)
        savedTranscript ==
            [id |-> generateId(random, now),
             videoTitle |-> transcript.videoTitle,
             videoUrl |-> transcript.videoUrl,
             text |-> transcript.text,
             audioDuration |-> transcript.audioDuration,
             serviceUsed |-> transcript.serviceUsed,
             createdAt |-> NewDate(now), updatedAt |-> NewDate(now)]
    IN IF writeThrows THEN StoreResult(f, TRUE, Undefined, FALSE)
       ELSE StoreResult(writeTranscripts(transcripts \o <<savedTranscript>>),
                        FALSE, savedTranscript, TRUE)

save(f, transcript, now, random, readThrows, writeThrows) ==
    LET transcripts == readTranscripts(f, readThrows)
        savedTranscript ==
            [id |-> generateId(random, now),
             videoTitle |-> transcript.videoTitle,
             videoUrl |-> transcript.videoUrl,
             text |-> transcript.text,
             audioDuration |-> transcript.audioDuration,
             serviceUsed |-> transcript.serviceUsed,
             createdAt |-> NewDate(now), updatedAt |-> NewDate(now)]
    IN IF writeThrows THEN StoreResult(f, TRUE, Undefined, FALSE)
       ELSE StoreResult(writeTranscripts(<<savedTranscript>> \o transcripts),
                        FALSE, savedTranscript, TRUE)

getAll(f, readThrows) == readTranscripts(f, readThrows)

\* transcripts.findIndex((t) => t.id === id), 0 when there is none
FindIndex(transcripts, id) ==
    IF \E i \in 1..Len(transcripts) : transcripts[i].id = id
    THEN CHOOSE i \in 1..Len(transcripts) :
             /\ transcripts[i].id = id
             /\ \A j \in 1..(i - 1) : transcripts[j].id # id
    ELSE 0

\* transcripts.find((t) => t.id === id) || null
getById(f, id, readThrows) ==
    LET transcripts == readTranscripts(f, readThrows)
        index == FindIndex(transcripts, id)
    IN IF index = 0 THEN Undefined ELSE transcripts[index]

\* transcripts.splice(index, 1)
Splice(transcripts, index) ==
    SubSeq(transcripts, 1, index - 1)
        \o SubSeq(transcripts, index + 1, Len(transcripts))

\* delete that rewrites the file also when the id is not there
deleteAlwaysWrites(f, id, readThrows, writeThrows) ==
    LET transcripts == readTranscripts(f, readThrows)
        index == FindIndex(transcripts, id)
    IN IF writeThrows THEN StoreResult(f, TRUE, FALSE, FALSE)
       ELSE IF index # 0
       THEN StoreResult(writeTranscripts(Splice(transcripts, index)),
                        FALSE, TRUE, TRUE)
       ELSE StoreResult(writeTranscripts(transcripts), FALSE, FALSE, TRUE)

delete(f, id, readThrows, writeThrows) ==
    LET transcripts == readTranscripts(f, readThrows)
        index == FindIndex(transcripts, id)
    IN IF index # 0
       THEN IF writeThrows THEN StoreResult(f, TRUE, FALSE, FALSE)
            ELSE StoreResult(writeTranscripts(Splice(transcripts, index)),
                             FALSE, TRUE, TRUE)
       ELSE StoreResult(f, FALSE, FALSE, FALSE)

(***************************************************************************)
(* The store API: /api/transcripts (GET, POST, DELETE) and                 *)
(* /api/transcripts/[id] (GET), called one after the other.                *)
(***************************************************************************)
\* the values of Math.random().toString(36).substr(2, 9) in the model
RandomParts == {<<"k">>, <<"q">>}

Ids ==
    {generateId(random, now) : random \in RandomParts, now \in 0..MaxClock}
    \cup {<<"n", "o">>}

\* the id parameter of a DELETE: an id, or none
IdParams == Ids \cup {<<>>}

Body(videoTitle, body_text, audioDuration, serviceUsed) ==
    [videoTitle |-> videoTitle, videoUrl |-> Str(<<"u">>),
     text |-> body_text, audioDuration |-> audioDuration,
     serviceUsed |-> serviceUsed]

\* the bodies of a POST: two that are complete, one with an empty text, one
\* without a title and one with an empty URL
Bodies ==
    { Body(Str(<<"A">>), Str(<<"a">>), Number(5), Str(<<"s", "c">>)),
      Body(Str(<<"B">>), Str(<<"b">>), Undefined, Undefined),
      Body(Str(<<"A">>), Str(<<>>), Undefined, Undefined),
      Body(Undefined, Str(<<"a">>), Undefined, Undefined),
      [Body(Str(<<"A">>), Str(<<"a">>), Undefined, Undefined)
           EXCEPT !.videoUrl = Str(<<>>)] }

\* the validation that looks at the title only
MissingRequiredFieldsTitleOnly(body) == ~Truthy(body.videoTitle)

\* !videoTitle || !videoUrl || !text
MissingRequiredFields(body) ==
    ~Truthy(body.videoTitle) \/ ~Truthy(body.videoUrl) \/ ~Truthy(body.text)

\* POST /api/transcripts: the status, the file afterwards and the record in
\* the answer
TranscriptsPOST(f, body, now, random, readThrows, writeThrows) ==
    IF MissingRequiredFields(body)
    THEN [status |-> 400, file |-> f, record |-> Undefined]
    ELSE LET result ==
               save(f, [body EXCEPT !.serviceUsed =
                            Or(@, Str(<<"a", "s", "s", "e", "m", "b", "l",
                                        "y", "a", "i">>))],
                    now, random, readThrows, writeThrows)
         IN IF result.threw
            THEN [status |-> 500, file |-> f, record |-> Undefined]
            ELSE [status |-> 201, file |-> result.file,
                  record |-> result.value]

\* DELETE /api/transcripts?id=
TranscriptsDELETE(f, id, readThrows, writeThrows) ==
    IF id = <<>> THEN [status |-> 400, file |-> f]
    ELSE LET result == delete(f, id, readThrows, writeThrows)
         IN IF result.threw THEN [status |-> 500, file |-> f]
            ELSE IF ~result.value THEN [status |-> 404, file |-> f]
            ELSE [status |-> 200, file |-> result.file]

\* GET /api/transcripts: the list as the JSON of the answer
TranscriptsGET(f, readThrows) ==
    [status |-> 200, list |-> JSONStringify(getAll(f, readThrows))]

\* GET /api/transcripts/[id]
TranscriptGET(f, id, readThrows) ==
    LET transcript == getById(f, id, readThrows)
    IN IF transcript = Undefined
       THEN [status |-> 404, record |-> Undefined]
       ELSE [status |-> 200, record |-> JSONStringify(<<transcript>>)[1]]

\* a call of the API and its answer: the id it was about, the status, the
\* record or the list in the answer, whether the file was written, whether
\* the read of the file went through, and whether a delete of that id had
\* succeeded before
Op(kind, id, status, record, list, wrote, readOk) ==
    [kind |-> kind, id |-> id, status |-> status, record |-> record,
     list |-> list, wrote |-> wrote, readOk |-> readOk,
     wasDeleted |-> id \in deletedIds]

\* a POST and its answer, with the body that was posted
Posted(op, body) ==
    [kind |-> op.kind, id |-> op.id, status |-> op.status,
     record |-> op.record, list |-> op.list, wrote |-> op.wrote,
     readOk |-> op.readOk, wasDeleted |-> op.wasDeleted, body |-> body]

\* what is kept of the call before the last one
Summary(op) ==
    IF op = NoOp THEN NoOp
    ELSE [kind |-> op.kind, status |-> op.status, record |-> op.record]

InitStore ==
    /\ StoreIdle
    /\ CodecIdle
    /\ RetryIdle
    /\ PagesIdle
    /\ RenderIdle
    /\ RouteIdle

\* time passes
Tick ==
    /\ clock < MaxClock
    /\ clock' = clock + 1
    /\ UNCHANGED <<storeFile, lastOp, prevOp, savedRecords, deletedIds,
                   opCount, writers, codecVars, renderVars, routeVars, retryVars, pageVars>>

\* GET /api/transcripts
GetTranscripts ==
    /\ opCount < MaxOps
    /\ \E readThrows \in BOOLEAN :
          lastOp' = Op("getAll", <<>>, 200, Undefined,
                       getAll(storeFile, readThrows), FALSE, ~readThrows)
    /\ prevOp' = Summary(lastOp)
    /\ opCount' = opCount + 1
    /\ UNCHANGED <<storeFile, clock, savedRecords, deletedIds, writers,
                   codecVars, renderVars, routeVars, retryVars, pageVars>>

\* POST /api/transcripts
PostTranscript ==
    /\ opCount < MaxOps
    /\ \E body \in Bodies, random \in RandomParts,
          readThrows \in BOOLEAN, writeThrows \in BOOLEAN :
          LET answer == TranscriptsPOST(storeFile, body, clock, random,
                                        readThrows, writeThrows)
          IN IF answer.status = 400
             THEN /\ ~readThrows /\ ~writeThrows
                  /\ lastOp' = Posted(Op("save", <<>>, 400, Undefined, <<>>,
                                         FALSE, TRUE), body)
                  /\ UNCHANGED <<storeFile, savedRecords>>
             ELSE IF answer.status = 500
             THEN /\ lastOp' = Posted(Op("save", <<>>, 500, Undefined, <<>>,
                                         FALSE, ~readThrows), body)
                  /\ UNCHANGED <<storeFile, savedRecords>>
             ELSE /\ lastOp' = Posted(Op("save", answer.record.id, 201,
                                         answer.record, <<>>, TRUE,
                                         ~readThrows), body)
                  /\ storeFile' = answer.file
                  /\ savedRecords' = savedRecords \cup {answer.record}
    /\ prevOp' = Summary(lastOp)
    /\ opCount' = opCount + 1
    /\ UNCHANGED <<clock, deletedIds, writers, codecVars, renderVars,
                   routeVars, retryVars, pageVars>>

\* DELETE /api/transcripts?id=...
DeleteTranscript ==
    /\ opCount < MaxOps
    /\ \E id \in IdParams, readThrows \in BOOLEAN, writeThrows \in BOOLEAN :
          LET answer == TranscriptsDELETE(storeFile, id, readThrows,
                                          writeThrows)
          IN IF answer.status = 400
             THEN /\ ~readThrows /\ ~writeThrows
                  /\ lastOp' = Op("delete", id, 400, Undefined, <<>>, FALSE,
                                  TRUE)
                  /\ UNCHANGED <<storeFile, deletedIds>>
             ELSE /\ lastOp' = Op("delete", id, answer.status, Undefined,
                                  <<>>, answer.status = 200, ~readThrows)
                  /\ storeFile' = answer.file
                  /\ deletedIds' = IF answer.status = 200
                                   THEN deletedIds \cup {id} ELSE deletedIds
    /\ prevOp' = Summary(lastOp)
    /\ opCount' = opCount + 1
    /\ UNCHANGED <<clock, savedRecords, writers, codecVars, renderVars,
                   routeVars, retryVars, pageVars>>

\* GET /api/transcripts/[id]
GetTranscript ==
    /\ opCount < MaxOps
    /\ \E id \in Ids, readThrows \in BOOLEAN :
          LET transcript == getById(storeFile, id, readThrows)
          IN lastOp' = Op("getById", id,
                          IF transcript = Undefined THEN 404 ELSE 200,
                          transcript, <<>>, FALSE, ~readThrows)
    /\ prevOp' = Summary(lastOp)
    /\ opCount' = opCount + 1
    /\ UNCHANGED <<storeFile, clock, savedRecords, deletedIds, writers,
                   codecVars, renderVars, routeVars, retryVars, pageVars>>

NextStore ==
    Tick \/ GetTranscripts \/ PostTranscript \/ DeleteTranscript
        \/ GetTranscript

SpecStore == InitStore /\ [][NextStore]_vars

(***************************************************************************)
(* Claims about the store.                                                 *)
(***************************************************************************)
\* the last call listed the collection, and its read of the file went
\* through, right after a call that saved a record
ListedAfterSave ==
    /\ lastOp.kind = "getAll" /\ lastOp.readOk
    /\ prevOp.kind = "save" /\ prevOp.status = 201

\* C13: after any calls of save and delete, a list that directly follows a
\* save has the record that was saved as its first element, and is in the
\* order of creation, the most recent first.
C13_SavedIsFirst ==
    ListedAfterSave =>
        /\ Len(lastOp.list) >= 1
        /\ lastOp.list[1] = prevOp.record
        /\ \A i, j \in 1..Len(lastOp.list) :
              i < j => lastOp.list[i].createdAt.ms >= lastOp.list[j].createdAt.ms

\* a list of two records made at different times, the later one first
C13_Witness ==
    /\ ListedAfterSave
    /\ Len(lastOp.list) = 2
    /\ lastOp.list[1] = prevOp.record
    /\ lastOp.list[1].createdAt.ms > lastOp.list[2].createdAt.ms

\* the stored collection has no record with this id
NotStored(id) == \A i \in 1..Len(storeFile.data) : storeFile.data[i].id # id

\* C14: a delete of an id that is not in the collection is answered with
\* 404 (the store returns false) and leaves the file as it was: the same
\* records in the same order, and no write.
C14_DeleteMissing ==
    [][\A id \in Ids :
          (/\ opCount' = opCount + 1
           /\ lastOp'.kind = "delete" /\ lastOp'.id = id
           /\ NotStored(id))
              => /\ lastOp'.status = 404
                 /\ ~lastOp'.wrote
                 /\ storeFile' = storeFile]_vars

\* a delete answered with 404 while the collection has a record
C14_Witness ==
    /\ lastOp.kind = "delete" /\ lastOp.status = 404 /\ ~lastOp.wrote
    /\ lastOp.readOk
    /\ storeFile.exists /\ Len(storeFile.data) >= 1
    /\ NotStored(lastOp.id)

\* the last call asked for an id that save has returned
AskedForSaved == \E r \in savedRecords : r.id = lastOp.id

\* C15: a getById of the id of a record that save returned answers with
\* that record, with its id and the fields that were saved, as long as no
\* delete of the id has succeeded; once a delete of the id has succeeded,
\* getById answers not found and a further delete of the id answers false.
C15_SaveGetDelete ==
    /\ (/\ lastOp.kind = "getById" /\ lastOp.readOk
        /\ AskedForSaved /\ ~lastOp.wasDeleted)
           => /\ lastOp.status = 200
              /\ \A r \in savedRecords : r.id = lastOp.id => lastOp.record = r
    /\ (lastOp.kind = "getById" /\ AskedForSaved /\ lastOp.wasDeleted)
           => lastOp.status = 404
    /\ (lastOp.kind = "delete" /\ AskedForSaved /\ lastOp.wasDeleted)
           => lastOp.status = 404

\* C17: no two records of the stored collection have the same id.
C17_UniqueIds ==
    \A i, j \in 1..Len(storeFile.data) :
        i # j => storeFile.data[i].id # storeFile.data[j].id

\* a stored record is in this file
InFile(f, stored) == \E i \in 1..Len(f.data) : f.data[i] = stored

\* C18: a record enters the stored collection only through a save that
\* returns it, is never changed while it is there, and leaves it only
\* through a delete of its own id that succeeds; no other call, and no read
\* that fails, removes or alters a record.
C18_Lifecycle ==
    [][/\ \A i \in 1..Len(storeFile'.data) :
             ~InFile(storeFile, storeFile'.data[i])
                 => /\ lastOp'.kind = "save" /\ lastOp'.status = 201
                    /\ storeFile'.data[i] = JSONStringify(<<lastOp'.record>>)[1]
       /\ \A j \in 1..Len(storeFile.data) :
             ~InFile(storeFile', storeFile.data[j])
                 => /\ lastOp'.kind = "delete" /\ lastOp'.status = 200
                    /\ lastOp'.id = storeFile.data[j].id]_vars

\* the part of C18 that holds: nothing but a save adds a record
OnlySaveAdds ==
    [][\A i \in 1..Len(storeFile'.data) :
          ~InFile(storeFile, storeFile'.data[i])
              => /\ lastOp'.kind = "save" /\ lastOp'.status = 201
                 /\ storeFile'.data[i] = JSONStringify(<<lastOp'.record>>)[1]]_vars

(***************************************************************************)
(* Two server processes on the same data file.  A call of save or delete   *)
(* is synchronous inside its process, so the steps of two calls interleave *)
(* only between processes, at the file: each call reads the whole file,    *)
(* changes its copy and writes the whole file, with no lock in between.    *)
(***************************************************************************)
Procs == {1, 2}

Idle == [pc |-> "idle"]

\* a write that keeps the records that other writers added since the read
WriteBackMerging(f, transcripts) ==
    LET current == readTranscripts(f, FALSE)
        others == SelectSeq(current,
                      LAMBDA r : \A i \in 1..Len(transcripts) :
                                     transcripts[i].id # r.id)
    IN writeTranscripts(transcripts \o others)

\* the file that a writer puts back: its own copy with its change, whatever
\* the file holds by then
WriteBack(f, transcripts) == writeTranscripts(transcripts)

InitRace ==
    /\ storeFile = [exists |-> FALSE, data |-> <<>>]
    /\ clock = 0
    /\ lastOp = NoOp
    /\ prevOp = NoOp
    /\ savedRecords = {}
    /\ deletedIds = {}
    /\ opCount = 0
    /\ writers = [p \in Procs |-> Idle]
    /\ CodecIdle
    /\ RetryIdle
    /\ PagesIdle
    /\ RenderIdle
    /\ RouteIdle

TickRace ==
    /\ clock < MaxClock
    /\ clock' = clock + 1
    /\ UNCHANGED <<storeFile, lastOp, prevOp, savedRecords, deletedIds,
                   opCount, writers, codecVars, renderVars, routeVars, retryVars, pageVars>>

\* save, up to its read of the file: readTranscripts, new Date(), generateId
SaveReads(p) ==
    /\ writers[p].pc = "idle"
    /\ opCount < MaxOps
    /\ \E body \in {b \in Bodies : ~MissingRequiredFields(b)},
          random \in RandomParts :
          writers' = [writers EXCEPT ![p] =
              [pc |-> "saving",
               transcripts |-> readTranscripts(storeFile, FALSE),
               record |-> [id |-> generateId(random, clock),
                           videoTitle |-> body.videoTitle,
                           videoUrl |-> body.videoUrl,
                           text |-> body.text,
                           audioDuration |-> body.audioDuration,
                           serviceUsed |-> body.serviceUsed,
                           createdAt |-> NewDate(clock),
                           updatedAt |-> NewDate(clock)]]]
    /\ opCount' = opCount + 1
    /\ UNCHANGED <<storeFile, clock, lastOp, prevOp, savedRecords,
                   deletedIds, codecVars, renderVars, routeVars, retryVars, pageVars>>

\* save, from unshift to its return
SaveWrites(p) ==
    /\ writers[p].pc = "saving"
    /\ storeFile' = WriteBack(storeFile,
                              <<writers[p].record>> \o writers[p].transcripts)
    /\ lastOp' = Op("save", writers[p].record.id, 201, writers[p].record,
                    <<>>, TRUE, TRUE)
    /\ prevOp' = Summary(lastOp)
    /\ savedRecords' = savedRecords \cup {writers[p].record}
    /\ writers' = [writers EXCEPT ![p] = Idle]
    /\ UNCHANGED <<clock, deletedIds, opCount, codecVars, renderVars,
                   routeVars, retryVars, pageVars>>

\* delete, up to findIndex
DeleteReads(p) ==
    /\ writers[p].pc = "idle"
    /\ opCount < MaxOps
    /\ \E id \in Ids :
          writers' = [writers EXCEPT ![p] =
              [pc |-> "deleting", id |-> id,
               transcripts |-> readTranscripts(storeFile, FALSE)]]
    /\ opCount' = opCount + 1
    /\ UNCHANGED <<storeFile, clock, lastOp, prevOp, savedRecords,
                   deletedIds, codecVars, renderVars, routeVars, retryVars, pageVars>>

\* delete, from the test of the index to its return
DeleteWrites(p) ==
    /\ writers[p].pc = "deleting"
    /\ LET index == FindIndex(writers[p].transcripts, writers[p].id)
       IN IF index # 0
          THEN /\ storeFile' = WriteBack(storeFile,
                                   Splice(writers[p].transcripts, index))
               /\ lastOp' = Op("delete", writers[p].id, 200, Undefined, <<>>,
                               TRUE, TRUE)
               /\ deletedIds' = deletedIds \cup {writers[p].id}
          ELSE /\ lastOp' = Op("delete", writers[p].id, 404, Undefined, <<>>,
                               FALSE, TRUE)
               /\ UNCHANGED <<storeFile, deletedIds>>
    /\ prevOp' = Summary(lastOp)
    /\ writers' = [writers EXCEPT ![p] = Idle]
    /\ UNCHANGED <<clock, savedRecords, opCount, codecVars, renderVars,
                   routeVars, retryVars, pageVars>>

NextRace ==
    \/ TickRace
    \/ \E p \in Procs :
          SaveReads(p) \/ SaveWrites(p) \/ DeleteReads(p) \/ DeleteWrites(p)

SpecRace == InitRace /\ [][NextRace]_vars

\* a writer that has read the file and not yet written it
Writing(p) == writers[p].pc \in {"saving", "deleting"}

\* the records of the file
StoredRecords(f) == {f.data[i] : i \in 1..Len(f.data)}

\* C16: a writer puts back the collection it read, with its own change and
\* nothing else: when it writes, what another writer has stored since its
\* read is lost, and the collection of the last writer is what the file
\* holds.
C16_LastWriterWins ==
    [][\A p \in Procs :
          (Writing(p) /\ ~Writing(p)' /\ storeFile' # storeFile)
              => StoredRecords(storeFile')
                     \subseteq StoredRecords(writeTranscripts(writers[p].transcripts))
                                   \cup StoredRecords(writeTranscripts(
                                            IF writers[p].pc = "saving"
                                            THEN <<writers[p].record>>
                                            ELSE <<>>))]_vars

\* a lost update: both writers are done, two saves have returned their
\* records, nothing has been deleted, and the file holds only one of them
C16_Witness ==
    /\ \A p \in Procs : ~Writing(p)
    /\ deletedIds = {}
    /\ Cardinality(savedRecords) = 2
    /\ \A r1, r2 \in savedRecords : r1 # r2 => r1.id # r2.id
    /\ Len(storeFile.data) = 1

(***************************************************************************)
(* Claims about validation and about failures of the backend.              *)
(***************************************************************************)
\* a youtube.com URL with a v parameter, or a youtu.be/<id> short URL
IsVideoUrl(url) ==
    /\ url.parses
    /\ \/ url.host = "youtube.com" /\ url.v \notin {"null", ""}
       \/ url.host = "youtu.be" /\ url.path # ""

\* a string that new URL rejects but in which the pattern of extractVideoId
\* finds a video id, such as "youtube.com/watch?v=abc"
LooksLikeVideoUrl(url) == ~url.parses /\ url.regexId # "null"

NotAVideoUrl ==
    /\ request.url.given
    /\ ~IsVideoUrl(request.url)
    /\ ~LooksLikeVideoUrl(request.url)

\* the API key that the route asks for first is there
KeyConfigured ==
    /\ route = "scrape" => env.SCRAPE_CREATORS_API_KEY
    /\ route \in {"assembly", "chunked"} => env.ASSEMBLYAI_API_KEY

InvalidUrlAnswer == response = ErrorResponse(400, "Invalid YouTube URL format")

\* C19: on every transcription route a URL that is neither a youtube.com
\* URL with a v parameter nor a youtu.be/<id> URL is answered with the
\* validation error, status 400, whatever the backend and ytdl would
\* answer if they were called (the API key of the route being configured).
C19_InvalidUrlRejected ==
    (Answered /\ NotAVideoUrl /\ KeyConfigured) => InvalidUrlAnswer

\* the routes that do validate
ValidatingRoutesReject ==
    (Answered /\ NotAVideoUrl /\ KeyConfigured /\ route # "chunked")
        => InvalidUrlAnswer

\* the request got as far as the call of the backend, and the backend
\* answered with a 5xx status or refused the connection
BackendUnavailable ==
    /\ route \in {"scrape", "direct", "directOld", "chunked"}
    /\ request.url.given
    /\ route = "scrape" => env.SCRAPE_CREATORS_API_KEY
    /\ route = "chunked" => env.ASSEMBLYAI_API_KEY
    /\ route # "chunked" => IsVideoUrl(request.url)
    /\ \/ backend.kind = "response" /\ backend.status >= 500
       \/ backend.kind = "throws" /\ backend.code = "ECONNREFUSED"

IsUnavailableMessage(message) ==
    message \in {UnavailableHome(page.selectedService),
                 UnavailablePage(page.selectedService)}

\* C20: when the backend answers with a 5xx status or refuses the
\* connection, the route answers 503, the page shows the "temporarily
\* unavailable" message of its service, and the page is no longer loading,
\* so that a new request can be submitted.
C20_UnavailableIsShown ==
    (routePc = "shown" /\ BackendUnavailable)
        => /\ response.status = 503
           /\ IsUnavailableMessage(page.error)
           /\ ~page.loading

\* the parts of C20 that the code keeps: the page is never left loading, and
\* the home page shows the message whenever the route answers 503
PageStaysUsable == routePc = "shown" => ~page.loading

HomeShowsUnavailable ==
    (routePc = "shown" /\ page.which = "home" /\ response.status = 503)
        => page.error = UnavailableHome(page.selectedService)

(***************************************************************************)
(* Claims about timeouts.                                                  *)
(***************************************************************************)
\* the request passes the checks that a route makes before it calls its
\* backend
ReachesBackend ==
    /\ request.url.given
    /\ KeyConfigured
    /\ route # "chunked" => IsVideoUrl(request.url)
    /\ route = "assembly" =>
           /\ ytdlOut.valid /\ ~ytdlOut.throws /\ ~ytdlOut.live
           /\ ytdlOut.audioFormats # 0
           /\ ~backend.tooLarge

\* the backend is called and a call is never answered: the fetch of a
\* route, or the upload or a call of transcribe of the AssemblyAI client
BackendHangs ==
    /\ ReachesBackend
    /\ IF route = "assembly"
       THEN \/ backend.upload = "hangs"
            \/ /\ backend.upload \in {"stream", "buffer"}
               /\ TranscribeHangs(backend.attempts)
       ELSE backend.kind = "hangs"

\* C21: every call of a route to its backend is bounded by a timeout: when
\* the backend does not answer, the call is cancelled and the route answers
\* with status 504, which is neither the 503 of an unavailable backend nor
\* the 500 of a generic failure.
C21_TimeoutAnswers504 ==
    (routePc # "start" /\ BackendHangs)
        => /\ Answered
           /\ response.status = 504

\* the part of C21 that the code keeps: the routes that call their backend
\* with fetch answer 504 when it does not answer
FetchTimeoutAnswers504 ==
    (routePc # "start" /\ BackendHangs /\ route # "assembly")
        => /\ Answered
           /\ response.status = 504
           /\ response.error # ""

(***************************************************************************)
(* Claims about faults.                                                    *)
(***************************************************************************)
\* the success body of the backend has no transcript text
TextMissing ==
    IF route = "scrape" THEN ScrapeTranscriptText(backend.data) = <<>>
    ELSE backend.data.text = Undefined

\* the backend is called and fails: the call throws or is timed out, the
\* status is an error, the body is not JSON, or it lacks the text
FetchFails ==
    /\ route # "assembly"
    /\ ReachesBackend
    /\ \/ backend.kind \in {"throws", "hangs"}
       \/ ~ResponseOk(backend)
       \/ ~backend.jsonOk
       \/ TextMissing

\* the AssemblyAI calls are answered and fail: the upload throws, every
\* call of transcribe throws, or no completed transcript comes back
AssemblyFails ==
    /\ route = "assembly"
    /\ ReachesBackend
    /\ ~BackendHangs
    /\ \/ backend.upload = "fails"
       \/ /\ backend.upload \in {"stream", "buffer"}
          /\ \/ FirstSuccess(backend.attempts) = 0
             \/ ~Truthy(backend.transcript)
             \/ backend.transcript.status = "error"

\* a completed AssemblyAI transcript without a text
AssemblyTextMissing ==
    /\ route = "assembly"
    /\ ReachesBackend
    /\ backend.upload \in {"stream", "buffer"}
    /\ FirstSuccess(backend.attempts) # 0
    /\ ~TranscribeHangs(backend.attempts)
    /\ Truthy(backend.transcript)
    /\ backend.transcript.status = "completed"
    /\ backend.transcript.text = Undefined

\* the route has answered with an error body, and once the page has handled
\* the answer it shows an error and is no longer loading
FailureIsAnswered ==
    /\ Answered
    /\ response.status >= 400 /\ response.error # ""
    /\ routePc = "shown" => (page.error # "" /\ ~page.loading)

\* a call of the store API during which reading the existing data file
\* throws is answered with an error
ReadFailureIsAnswered ==
    (opCount' = opCount + 1 /\ storeFile.exists /\ ~lastOp'.readOk)
        => lastOp'.status >= 400

\* C22: no error of a backend or of the store goes uncaught and unreported:
\* whenever the call of the backend fails (error status, thrown error,
\* timeout, body that is not JSON or lacks the text) or the store fails to
\* read or write its file, the route answers with a JSON error body, and the
\* page that gets the answer shows an error.
C22_FailuresAreReported ==
    /\ []((routePc # "start"
              /\ (FetchFails \/ AssemblyFails \/ AssemblyTextMissing))
            => FailureIsAnswered)
    /\ [][ReadFailureIsAnswered]_vars

\* the parts of C22 that the code keeps: every failure of a backend, but for
\* a completed AssemblyAI transcript without text, is answered with an error
\* body and shown by the page; and a call of the store API is always
\* answered, with status 500 when the write throws
BackendFailuresAreReported ==
    (routePc # "start" /\ (FetchFails \/ AssemblyFails)) => FailureIsAnswered

StoreCallsAreAnswered ==
    lastOp.kind # "none" => lastOp.status \in {200, 201, 400, 404, 500}

(***************************************************************************)
(* The pages that use the store: the save button of the home page, the     *)
(* saved-transcripts page and the page of one saved transcript, with the   *)
(* routes of the store API that answer them.                               *)
(***************************************************************************)
MaxStored == 2
MaxPending == 2
\* the clicks of the user in one run
MaxClicks == 2

\* response.ok
Ok(status) == status >= 200 /\ status <= 299

\* the saved-transcripts page after fetchTranscripts
fetchTranscripts(p, threw, answer) ==
    IF threw
    THEN [p EXCEPT !.pc = "shown", !.error = "Error loading transcripts"]
    ELSE IF Ok(answer.status)
    THEN [p EXCEPT !.pc = "shown", !.transcripts = answer.list]
    ELSE [p EXCEPT !.pc = "shown", !.error = "Failed to load transcripts"]

\* transcripts.filter((t) => t.id !== id)
WithoutId(transcripts, id) == SelectSeq(transcripts, LAMBDA t : t.id # id)

\* deleteTranscript that takes the transcript off the list whatever the
\* answer is
deleteTranscriptOptimistic(p, seen, id, threw, status) ==
    IF threw
    THEN [p EXCEPT !.transcripts = WithoutId(seen, id),
                   !.alert = "Error deleting transcript"]
    ELSE IF Ok(status) THEN [p EXCEPT !.transcripts = WithoutId(seen, id)]
    ELSE [p EXCEPT !.transcripts = WithoutId(seen, id),
                   !.alert = "Failed to delete transcript"]

\* deleteTranscript from the answer of its request on; seen is the
\* transcripts of the render in which the button was clicked, which the
\* handler has closed over
deleteTranscript(p, seen, id, threw, status) ==
    IF threw THEN [p EXCEPT !.alert = "Error deleting transcript"]
    ELSE IF Ok(status) THEN [p EXCEPT !.transcripts = WithoutId(seen, id)]
    ELSE [p EXCEPT !.alert = "Failed to delete transcript"]

\* the body that saveTranscript posts
SaveBody(transcript) ==
    Body(Or(transcript.video_title,
            Str(<<"Y", "o", "u", "T", "u", "b", "e", " ", "V", "i", "d",
                  "e", "o">>)),
         transcript.text, transcript.audio_duration, transcript.service_used)

\* saveTranscript of the home page from the answer of its request on; in
\* finally, setSaving(false)
saveTranscript(p, threw, status) ==
    IF threw THEN [p EXCEPT !.alert = "Error saving transcript"]
    ELSE IF Ok(status) THEN [p EXCEPT !.saved = TRUE]
    ELSE [p EXCEPT !.alert = "Failed to save transcript"]

\* the service tags
AssemblyaiTag == Str(<<"a", "s", "s", "e", "m", "b", "l", "y", "a", "i">>)
ChunkedTag ==
    Str(<<"a", "s", "s", "e", "m", "b", "l", "y", "a", "i", "_", "c", "h",
          "u", "n", "k", "e", "d">>)
ScrapeTag ==
    Str(<<"s", "c", "r", "a", "p", "e", "_", "c", "r", "e", "a", "t", "o",
          "r", "s">>)
DirectTag ==
    Str(<<"y", "o", "u", "t", "u", "b", "e", "_", "d", "i", "r", "e", "c",
          "t">>)

\* getServiceBadge of the page of one transcript: the label of the badge,
\* "null" for no badge, and "TypeError" when serviceConfig[service] is
\* undefined and config.className is read from it
getServiceBadge(service) ==
    IF ~Truthy(service) THEN "null"
    ELSE IF service = AssemblyaiTag THEN "AssemblyAI"
    ELSE IF service = DirectTag THEN "YouTube Direct"
    ELSE "TypeError"

\* the page of one transcript after fetchTranscript and its render
fetchTranscript(threw, answer) ==
    IF threw
    THEN [pc |-> "shown", transcript |-> Undefined,
          error |-> "Error loading transcript", badge |-> "null"]
    ELSE IF Ok(answer.status)
    THEN [pc |-> "shown", transcript |-> answer.record, error |-> "",
          badge |-> getServiceBadge(answer.record.serviceUsed)]
    ELSE [pc |-> "shown", transcript |-> Undefined,
          error |-> "Transcript not found", badge |-> "null"]

\* a record that is in the data file from the start
StoredRecord(i) ==
    [id |-> <<"r">> \o NatToString(i), videoTitle |-> Str(<<"A">>),
     videoUrl |-> Str(<<"u">>), text |-> Str(<<"a">>),
     audioDuration |-> Undefined, serviceUsed |-> AssemblyaiTag,
     createdAt |-> NewDate(0), updatedAt |-> NewDate(0)]

InitialFiles ==
    { [exists |-> FALSE, data |-> <<>>] }
    \cup { writeTranscripts([i \in 1..n |-> StoredRecord(i)]) :
             n \in 0..MaxStored }

\* the transcripts that a home page shows, with the tag of the service that
\* the page has put on them (the copy of the page that has only AssemblyAI
\* puts none)
ShownTranscripts ==
    [text : {Str(<<"a">>), Str(<<>>)},
     video_title : {Undefined},
     audio_duration : {Undefined},
     service_used : {Undefined, AssemblyaiTag, ChunkedTag, ScrapeTag,
                     DirectTag}]

\* the ids of a list of transcripts
IdsOf(transcripts) == {transcripts[i].id : i \in 1..Len(transcripts)}

InitPages ==
    /\ storeFile \in InitialFiles
    /\ clock = 0
    /\ lastOp = NoOp
    /\ prevOp = NoOp
    /\ savedRecords = {}
    /\ deletedIds = {}
    /\ opCount = 0
    /\ writers = <<>>
    /\ listPage = [pc |-> "loading", transcripts |-> <<>>, error |-> "",
                   alert |-> "", requests |-> {}]
    /\ \E transcript \in ShownTranscripts :
          savePage = [pc |-> "shown", transcript |-> transcript,
                      saving |-> FALSE, saved |-> FALSE, alert |-> ""]
    /\ detailPage = [pc |-> "closed", transcript |-> Undefined, error |-> "",
                     badge |-> "null"]
    /\ CodecIdle
    /\ RenderIdle
    /\ RouteIdle
    /\ RetryIdle

\* the home page: a click on Save Transcript (the button is disabled while
\* saving or saved), the request and its answer
SaveTranscript ==
    /\ savePage.pc = "shown" /\ ~savePage.saving /\ ~savePage.saved
    /\ opCount < MaxClicks
    /\ \E threw \in BOOLEAN, random \in RandomParts,
          readThrows \in BOOLEAN, writeThrows \in BOOLEAN :
          LET answer == TranscriptsPOST(storeFile,
                            SaveBody(savePage.transcript), clock, random,
                            readThrows, writeThrows)
          IN IF threw
             THEN /\ savePage' = saveTranscript(savePage, TRUE, 0)
                  /\ lastOp' = Op("save", <<>>, 0, Undefined, <<>>, FALSE,
                                  TRUE)
                  /\ UNCHANGED <<storeFile, savedRecords>>
             ELSE /\ savePage' = saveTranscript(savePage, FALSE,
                                                answer.status)
                  /\ lastOp' = Op("save", <<>>, answer.status, answer.record,
                                  <<>>, answer.file # storeFile, ~readThrows)
                  /\ storeFile' = answer.file
                  /\ savedRecords' = IF answer.status = 201
                                     THEN savedRecords \cup {answer.record}
                                     ELSE savedRecords
    /\ prevOp' = Summary(lastOp)
    /\ opCount' = opCount + 1
    /\ UNCHANGED <<clock, deletedIds, writers, listPage, detailPage,
                   codecVars, renderVars, routeVars, retryVars>>

\* setTimeout(() => setSaved(false), 3000)
SavedTimer ==
    /\ savePage.pc = "shown" /\ savePage.saved
    /\ savePage' = [savePage EXCEPT !.saved = FALSE]
    /\ UNCHANGED <<storeVars, listPage, detailPage,
                   codecVars, renderVars, routeVars, retryVars>>

\* the saved-transcripts page is mounted: fetchTranscripts
FetchTranscripts ==
    /\ listPage.pc = "loading"
    /\ \E threw \in BOOLEAN, readThrows \in BOOLEAN :
          listPage' = fetchTranscripts(listPage, threw,
                                       TranscriptsGET(storeFile, readThrows))
    /\ UNCHANGED <<storeVars, savePage, detailPage,
                   codecVars, renderVars, routeVars, retryVars>>

\* a click on Delete that is confirmed: the request is sent, with the
\* transcripts of the render that the handler belongs to
DeleteClicked ==
    /\ listPage.pc = "shown"
    /\ opCount < MaxClicks
    /\ Cardinality(listPage.requests) < MaxPending
    /\ \E id \in IdsOf(listPage.transcripts) :
          listPage' = [listPage EXCEPT !.requests =
              @ \cup {[id |-> id, seen |-> listPage.transcripts,
                       state |-> "sent", status |-> 0]}]
    /\ opCount' = opCount + 1
    /\ UNCHANGED <<storeFile, clock, lastOp, prevOp, savedRecords,
                   deletedIds, writers, savePage, detailPage,
                   codecVars, renderVars, routeVars, retryVars>>

\* the route answers a request of the page, or the fetch fails
DeleteServed ==
    \E r \in listPage.requests :
        /\ r.state = "sent"
        /\ \E threw \in BOOLEAN, readThrows \in BOOLEAN,
              writeThrows \in BOOLEAN :
              LET answer == TranscriptsDELETE(storeFile, r.id, readThrows,
                                              writeThrows)
              IN IF threw
                 THEN /\ listPage' = [listPage EXCEPT !.requests =
                             (@ \ {r}) \cup {[r EXCEPT !.state = "threw"]}]
                      /\ UNCHANGED <<storeFile, deletedIds>>
                 ELSE /\ listPage' = [listPage EXCEPT !.requests =
                             (@ \ {r}) \cup
                                 {[r EXCEPT !.state = "answered",
                                            !.status = answer.status]}]
                      /\ storeFile' = answer.file
                      /\ deletedIds' = IF answer.status = 200
                                       THEN deletedIds \cup {r.id}
                                       ELSE deletedIds
        /\ UNCHANGED <<clock, lastOp, prevOp, savedRecords, opCount, writers,
                       savePage, detailPage,
                       codecVars, renderVars, routeVars, retryVars>>

\* the page gets the answer of a request: the rest of deleteTranscript
DeleteAnswered ==
    \E r \in listPage.requests :
        /\ r.state # "sent"
        /\ listPage' = [deleteTranscript(listPage, r.seen, r.id,
                                         r.state = "threw", r.status)
                           EXCEPT !.requests = @ \ {r}]
        /\ UNCHANGED <<storeVars, savePage, detailPage,
                       codecVars, renderVars, routeVars, retryVars>>

\* the page of one transcript is opened: fetchTranscript and the render
OpenTranscript ==
    /\ detailPage.pc = "closed"
    /\ opCount < MaxClicks
    /\ \E id \in IdsOf(storeFile.data) \cup {<<"n", "o">>},
          threw \in BOOLEAN, readThrows \in BOOLEAN :
          detailPage' = fetchTranscript(threw,
                            TranscriptGET(storeFile, id, readThrows))
    /\ opCount' = opCount + 1
    /\ UNCHANGED <<storeFile, clock, lastOp, prevOp, savedRecords,
                   deletedIds, writers, listPage, savePage,
                   codecVars, renderVars, routeVars, retryVars>>

NextPages ==
    \/ SaveTranscript \/ SavedTimer \/ FetchTranscripts \/ DeleteClicked
    \/ DeleteServed \/ DeleteAnswered \/ OpenTranscript

SpecPages == InitPages /\ [][NextPages]_vars

(***************************************************************************)
(* Claims about the pages that use the store.                              *)
(***************************************************************************)
\* the answer of this request is a failure: the fetch threw, or the status
\* is not ok
FailedRequest(r) == r.state = "threw" \/ (r.state = "answered" /\ ~Ok(r.status))

\* in this step the saved-transcripts page handles the failed answer of a
\* delete request
FailedDeleteHandled ==
    /\ listPage.pc = "shown"
    /\ \E r \in listPage.requests :
          FailedRequest(r) /\ r \notin listPage'.requests

\* in this step the home page handles the failed answer of a save request
FailedSaveHandled ==
    /\ savePage.pc = "shown"
    /\ opCount' = opCount + 1
    /\ lastOp'.kind = "save" /\ ~Ok(lastOp'.status)
    /\ savePage' # savePage

\* C23: a save or a delete that fails leaves what the page shows as it was:
\* after a failed delete the list of the saved-transcripts page is the same,
\* and after a failed save the transcript of the home page is the same and
\* its saved flag is still false; the failure is told in an alert.
C23_FailureKeepsView ==
    [][/\ FailedDeleteHandled
             => /\ listPage'.transcripts = listPage.transcripts
                /\ listPage'.error = listPage.error
                /\ listPage'.alert \in {"Failed to delete transcript",
                                        "Error deleting transcript"}
       /\ FailedSaveHandled
             => /\ savePage'.transcript = savePage.transcript
                /\ ~savePage'.saved /\ ~savePage'.saving
                /\ savePage'.alert \in {"Failed to save transcript",
                                        "Error saving transcript"}]_vars

\* both failures have happened: the list still shows its transcripts after
\* a delete that failed, and the transcript is not saved after a save that
\* failed
C23_Witness ==
    /\ listPage.pc = "shown" /\ listPage.requests = {}
    /\ listPage.alert = "Failed to delete transcript"
    /\ Len(listPage.transcripts) = MaxStored
    /\ savePage.alert = "Failed to save transcript"
    /\ ~savePage.saved
    /\ lastOp.kind = "save" /\ lastOp.status = 500

\* C24: on the saved-transcripts page, once the answers of all delete
\* requests have been handled, in whatever order the requests were sent and
\* answered, the list shows no transcript whose delete succeeded.
C24_DeletedNotDisplayed ==
    (listPage.pc = "shown" /\ listPage.requests = {})
        => \A id \in IdsOf(listPage.transcripts) : id \notin deletedIds

\* C27: every service tag that a save can store (assemblyai,
\* assemblyai_chunked, scrape_creators, youtube_direct, or assemblyai when
\* the tag is omitted) is handled by the page of one transcript:
\* getServiceBadge gives a badge or null and never reads a configuration
\* that does not exist.
C27_BadgeForEveryTag ==
    detailPage.pc = "shown" => detailPage.badge # "TypeError"

\* the part of C27 that the code keeps: the tags assemblyai and
\* youtube_direct, and a record saved without a tag, have a badge
KnownTagsHaveBadge ==
    (/\ detailPage.pc = "shown"
     /\ detailPage.transcript # Undefined
     /\ detailPage.transcript.serviceUsed \in {AssemblyaiTag, DirectTag})
        => detailPage.badge \in {"AssemblyAI", "YouTube Direct"}

OmittedTagIsAssemblyai ==
    \A r \in savedRecords :
        savePage.transcript.service_used = Undefined
            => r.serviceUsed = AssemblyaiTag

(***************************************************************************)
(* The retry loop of the AssemblyAI route, one call of transcribe and one  *)
(* wait at a time.  calls are the outcomes of the calls made so far and    *)
(* waits the times waited so far, in milliseconds.                         *)
(***************************************************************************)
\* retryCount >= maxRetries
Exhausted(retryCount) == retryCount >= maxRetries

\* the same wait before every retry
WaitTimeFixed(retryCount) == 2 * 1000

\* Math.pow(2, retryCount) * 1000
WaitTime(retryCount) == (2 ^ retryCount) * 1000

\* what follows the loop
AfterLoop(transcript, title) ==
    IF ~Truthy(transcript)
    THEN ErrorResponse(500, "Failed to start transcription after multiple attempts.")
    ELSE IF transcript.status = "error"
    THEN ErrorResponse(500, "Transcription failed: <transcript.error>")
    ELSE OkResponse(transcript.text, title, transcript.audio_duration,
                    Undefined, "", "")

\* a call that succeeds and leaves the loop running
transcribeSucceededNoBreak(r, transcript) ==
    [r EXCEPT !.calls = Append(@, "ok"), !.transcript = transcript]

\* the call of transcribe returns: break, and the answer
transcribeSucceeded(r, transcript) ==
    [r EXCEPT !.calls = Append(@, "ok"), !.transcript = transcript,
              !.pc = "done",
              !.response = AfterLoop(transcript, Str(GoodYtdl.title))]

\* the call of transcribe throws: the catch block
transcribeFailed(r, message) ==
    LET retryCount == r.retryCount + 1
    IN IF Exhausted(retryCount)
       THEN [r EXCEPT !.calls = Append(@, message),
                      !.retryCount = retryCount, !.pc = "done",
                      !.response = AssemblyExhausted(message)]
       ELSE [r EXCEPT !.calls = Append(@, message),
                      !.retryCount = retryCount, !.pc = "waiting",
                      !.waits = Append(@, WaitTime(retryCount))]

\* the wait is over: the test of the while loop
AfterWait(r) ==
    IF r.retryCount < maxRetries THEN [r EXCEPT !.pc = "loop"]
    ELSE [r EXCEPT !.pc = "done",
                   !.response = AfterLoop(r.transcript, Str(GoodYtdl.title))]

InitRetry ==
    /\ retry = [pc |-> "loop", retryCount |-> 0, calls |-> <<>>,
                waits |-> <<>>, transcript |-> Undefined,
                response |-> NoResponse]
    /\ CodecIdle
    /\ RenderIdle
    /\ RouteIdle
    /\ StoreIdle
    /\ PagesIdle

\* one pass of the loop body, up to the answer, the wait, or for ever
Transcribe ==
    /\ retry.pc = "loop"
    /\ \E outcome \in AttemptOutcomes :
          IF outcome = "ok"
          THEN \E transcript \in AssemblyTranscripts :
                  retry' = transcribeSucceeded(retry, transcript)
          ELSE IF outcome = "hangs"
          THEN retry' = [retry EXCEPT !.calls = Append(@, "hangs"),
                                      !.pc = "pending"]
          ELSE retry' = transcribeFailed(retry, outcome)
    /\ UNCHANGED <<codecVars, renderVars, routeVars, storeVars, pageVars>>

\* setTimeout(resolve, waitTime) fires
WaitElapses ==
    /\ retry.pc = "waiting"
    /\ retry' = AfterWait(retry)
    /\ UNCHANGED <<codecVars, renderVars, routeVars, storeVars, pageVars>>

NextRetry == Transcribe \/ WaitElapses

SpecRetry == InitRetry /\ [][NextRetry]_vars

(***************************************************************************)
(* Claims about the retry loop.                                            *)
(***************************************************************************)
\* every call made so far has thrown
AllFailed == \A i \in 1..Len(retry.calls) : retry.calls[i] \notin {"ok", "hangs"}

\* C25: transcription is attempted at most 3 times, no attempt follows one
\* that succeeded, and the route answers only after a success or after the
\* third failure.
C25_AtMostThreeAttempts ==
    /\ Len(retry.calls) <= 3
    /\ \A i \in 1..(Len(retry.calls) - 1) : retry.calls[i] # "ok"
    /\ retry.response # NoResponse <=> retry.pc = "done"
    /\ retry.pc = "done" =>
           \/ retry.calls[Len(retry.calls)] = "ok"
           \/ Len(retry.calls) = 3 /\ AllFailed

\* the route answers 503 after three calls that have thrown
C25_Witness ==
    /\ retry.pc = "done"
    /\ Len(retry.calls) = 3 /\ AllFailed
    /\ retry.response.status = 503

\* a run in which every call has thrown has come to its answer
FullyFailed == retry.pc = "done" /\ AllFailed

LoopAnswersAsRoute ==
    retry.pc = "done" =>
        retry.response =
            AssemblyPOST([url |-> GoodUrl], GoodEnv, GoodYtdl,
                [kind |-> "assembly", tooLarge |-> FALSE, upload |-> "stream",
                 attempts |-> [i \in 1..maxRetries |->
                                  IF i <= Len(retry.calls) THEN retry.calls[i]
                                  ELSE "ok"],
                 transcript |-> retry.transcript])

(***************************************************************************)
(* Claims about a submit.                                                  *)
(***************************************************************************)
\* the page shows a transcript
TranscriptDisplayed == page.transcript # Undefined

\* the page shows an error message
ErrorDisplayed == page.error # ""

\* the page has handled the answer of its request
SubmitSettled == routePc = "shown" /\ ~page.loading

\* C28: every submit comes to an end with loading false again, whatever
\* the backend does (success, error status, thrown error, answer without
\* text), as long as the request is answered at all; and the page then
\* shows either a transcript or a non-empty error message, never both and
\* never neither.
C28_SubmitSettles ==
    /\ (routePc = "start") ~> (routePc = "pending" \/ SubmitSettled)
    /\ [](routePc = "shown"
            => /\ ~page.loading
               /\ TranscriptDisplayed # ErrorDisplayed)

\* the second half of C28, for every request of the routes
SettledShowsOneOfTwo ==
    routePc = "shown"
        => /\ ~page.loading
           /\ TranscriptDisplayed # ErrorDisplayed

\* both ends of a submit on the home page: a transcript with no error, and
\* the error for an answer that has no text
C28_Witness ==
    /\ SubmitSettled /\ page.which = "home"
    /\ response.status = 200 /\ ~Truthy(response.text)
    /\ ErrorDisplayed /\ ~TranscriptDisplayed

C28_ShownWitness ==
    /\ SubmitSettled /\ page.which = "home"
    /\ TranscriptDisplayed /\ ~ErrorDisplayed

(***************************************************************************)
(* Claims about what save and delete leave alone.                          *)
(***************************************************************************)
\* this step is a call of the store API of this kind, answered with this
\* status
StoreCall(kind, status) ==
    /\ opCount' = opCount + 1
    /\ lastOp'.kind = kind /\ lastOp'.status = status

\* the step takes the first record with the id of the call out of the
\* collection and nothing else
RemovesFirstMatch ==
    /\ FindIndex(storeFile.data, lastOp'.id) # 0
    /\ storeFile'.data =
           Splice(storeFile.data, FindIndex(storeFile.data, lastOp'.id))

\* the step puts one record into the collection and nothing else
AddsOneRecord ==
    \E k \in 1..Len(storeFile'.data) :
        Splice(storeFile'.data, k) = storeFile.data

\* C29: a delete that succeeds removes exactly one record, the first whose
\* id matches, and leaves every other record as it was and in the same
\* order; a save that succeeds leaves every record stored before as it was
\* and in the same order.
C29_FrameOfSaveAndDelete ==
    [][/\ StoreCall("delete", 200) => RemovesFirstMatch
       /\ StoreCall("save", 201) => AddsOneRecord]_vars

\* the parts of C29 that the code keeps: the frame of delete, and the frame
\* of a save whose read of the file went through
DeleteFrame == [][StoreCall("delete", 200) => RemovesFirstMatch]_vars

SaveFrameAfterRead ==
    [][(StoreCall("save", 201) /\ lastOp'.readOk) => AddsOneRecord]_vars

(***************************************************************************)
(* Claims about the validation of the store API.                           *)
(***************************************************************************)
\* this step is a POST of a body that lacks its title, URL or text
IncompletePost ==
    /\ opCount' = opCount + 1
    /\ lastOp'.kind = "save"
    /\ \/ ~Truthy(lastOp'.body.videoTitle)
       \/ ~Truthy(lastOp'.body.videoUrl)
       \/ ~Truthy(lastOp'.body.text)

\* this step is a DELETE without an id
DeleteWithoutId ==
    /\ opCount' = opCount + 1
    /\ lastOp'.kind = "delete" /\ lastOp'.id = <<>>

\* C30: a POST whose videoTitle, videoUrl or text is missing or empty is
\* answered with status 400 and leaves the stored collection as it was; a
\* DELETE without an id is answered with status 400 and leaves the
\* collection as it was.
C30_InvalidCallsRejected ==
    [][(IncompletePost \/ DeleteWithoutId)
          => /\ lastOp'.status = 400
             /\ ~lastOp'.wrote
             /\ storeFile' = storeFile
             /\ savedRecords' = savedRecords]_vars

\* a POST with an empty URL is rejected right after a DELETE without an id
\* is, with a record in the collection
C30_Witness ==
    /\ lastOp.kind = "save" /\ lastOp.status = 400
    /\ lastOp.body.videoUrl = Str(<<>>)
    /\ Truthy(lastOp.body.videoTitle) /\ Truthy(lastOp.body.text)
    /\ prevOp.kind = "delete" /\ prevOp.status = 400
    /\ Len(storeFile.data) = 1

====
